---- MODULE Spec2Model ----
(***************************************************************************)
(* Model of the coyote controlled-concurrency scheduler: the serializing   *)
(* scheduler kernel (SchedulerClient, reference logic of                   *)
(* src/unnamed/part_000) and the PCT exploration strategy                  *)
(* (src/include/coyote/strategies/pct_strategy.h).                         *)
(*                                                                         *)
(* Every kernel entry point holds the kernel mutex from entry to its next  *)
(* condition-variable wait, so each action below is one such segment.      *)
(***************************************************************************)
EXTENDS Integers, Sequences, FiniteSets, TLC

\* ------------------------------------------------------------------ bounds
MaxOpId == 2          \* operation ids are 0..MaxOpId, 0 is the main operation
MaxResId == 2         \* resource ids are 1..MaxResId
MaxCalls == 8         \* cap on the number of entry-point calls of a run
MaxIterations == 2    \* cap on iteration_count (number of attach calls)
max_priority_switches == 3   \* Settings::exploration_strategy_bound

main_op_id == 0

OpIds == 0..MaxOpId
ResIds == 1..MaxResId
Seeds == {1, 2}

\* ------------------------------------------------------------------ state
VARIABLES
    \* scheduler kernel
    operation_map,                 \* id -> Operation record (domain: existing ids)
    operations,                    \* the enabled set: sequence of [id, enabled]
    resource_map,                  \* resource id -> set of blocked operation ids
    scheduled_op_id,
    pending_start_operation_count,
    is_attached,
    iteration_count,
    last_error_code,
    \* PCT strategy
    generator,
    prioritized_operations,
    known_operations,
    priority_change_points,
    scheduled_steps,
    schedule_length,
    \* client threads: one OS thread per operation id
    pc,                            \* where each thread is
    park,                          \* the Operation a parked thread waits on
    notified,                      \* threads whose condition variable was notified
    \* the client program
    calls,                         \* number of entry-point calls made so far
    app                            \* the client program and its own variables

kernel_vars == <<operation_map, operations, resource_map, scheduled_op_id,
                 pending_start_operation_count, is_attached, iteration_count,
                 last_error_code>>
strategy_vars == <<generator, prioritized_operations, known_operations,
                   priority_change_points, scheduled_steps, schedule_length>>
thread_vars == <<pc, park, notified>>
vars == <<kernel_vars, strategy_vars, thread_vars, calls, app>>

\* ------------------------------------------------------------- small helpers
Min(a, b) == IF a < b THEN a ELSE b

Range(s) == {s[i] : i \in 1..Len(s)}

RECURSIVE SelectIds(_)
\* the ids of the enabled members of an enabled-set sequence, in order
SelectIds(s) ==
    IF s = <<>> THEN <<>>
    ELSE IF Head(s).enabled THEN <<Head(s).id>> \o SelectIds(Tail(s))
         ELSE SelectIds(Tail(s))

InsertAt(s, k, x) == SubSeq(s, 1, k) \o <<x>> \o SubSeq(s, k + 1, Len(s))

RemoveAll(s, x) == SelectSeq(s, LAMBDA y : y # x)

\* ------------------------------------------------------------ Operation
\* A freshly constructed Operation.
NewOperation ==
    [status |-> "None", is_scheduled |-> FALSE, blocked_operation_ids |-> {},
     join_ids |-> {}, join_all |-> FALSE, res_ids |-> {}, res_all |-> FALSE]

\* Operation::join_operation / join_operations: store the join target.
OpJoinOperations(op, ids, all) ==
    [op EXCEPT !.status = "Blocked", !.join_ids = ids, !.join_all = all]

\* Operation::on_join_operation: the record after target `id` completed.
OpOnJoinOperation(op, id) ==
    IF op.status = "Blocked" /\ id \in op.join_ids
    THEN IF op.join_all /\ op.join_ids # {id}
         THEN [op EXCEPT !.join_ids = @ \ {id}]
         ELSE [op EXCEPT !.status = "Enabled", !.join_ids = {}, !.join_all = FALSE]
    ELSE op

\* Operation::wait_resource_signal / wait_resource_signals: store the wait.
OpWaitResourceSignals(op, ids, all) ==
    [op EXCEPT !.status = "Blocked", !.res_ids = ids, !.res_all = all]

\* Operation::on_resource_signal: the record after resource `r` was signalled.
OpOnResourceSignal(op, r) ==
    IF op.status = "Blocked" /\ r \in op.res_ids
    THEN IF op.res_all /\ op.res_ids # {r}
         THEN [op EXCEPT !.res_ids = @ \ {r}]
         ELSE [op EXCEPT !.status = "Enabled", !.res_ids = {}, !.res_all = FALSE]
    ELSE op

\* The boolean both on_* helpers return: the operation became unblocked.
Unblocked(before, after) == before.status = "Blocked" /\ after.status = "Enabled"

\* ------------------------------------------------------------ Operations
\* Operations::insert: appended as an enabled member.
OpsInsert(ops, id) == Append(ops, [id |-> id, enabled |-> TRUE])

\* Operations::enable / disable: flip the flag in place, order preserved.
OpsSetEnabled(ops, id, flag) ==
    [i \in 1..Len(ops) |->
        IF ops[i].id = id THEN [ops[i] EXCEPT !.enabled = flag] ELSE ops[i]]

OpsEnable(ops, id) == OpsSetEnabled(ops, id, TRUE)

OpsDisable(ops, id) == OpsSetEnabled(ops, id, FALSE)

\* Operations::remove: erased entirely.
OpsRemove(ops, id) == SelectSeq(ops, LAMBDA m : m.id # id)

\* Operations::size(true) and the indexed view operations[idx].
EnabledView(ops) == SelectIds(ops)

\* Operations::size(false).
OpsTotal(ops) == Len(ops)

\* ------------------------------------------------------------ Random
\* Random::next: the generator's next state, which is also the value returned.
RandomNext(g) == (g * 3) % 17

\* ------------------------------------------------------------ PCT strategy
\* Variant of get_operation_with_highest_priority that returns the head of the
\* priority list, enabled or not.
get_operation_with_highest_priority_Head(list, en) ==
    IF list = <<>> THEN -1 ELSE Head(list)

\* PCTStrategy::get_operation_with_highest_priority: the first id of the
\* priority list that is enabled; -1 when there is none (InternalError thrown).
RECURSIVE get_operation_with_highest_priority(_, _)
get_operation_with_highest_priority(list, en) ==
    IF list = <<>> THEN -1
    ELSE IF Head(list) \in Range(en) THEN Head(list)
         ELSE get_operation_with_highest_priority(Tail(list), en)

\* Variant of AssignPriorities that draws the position of a new operation from
\* 0..size, the front of the list included.
RECURSIVE AssignPriorities_AnyIndex(_, _, _)
AssignPriorities_AnyIndex(s, en, i) ==
    IF i > Len(en) THEN s
    ELSE IF en[i] \in s.known THEN AssignPriorities_AnyIndex(s, en, i + 1)
         ELSE LET g == RandomNext(s.gen)
                  index == g % (Len(s.list) + 1)
              IN AssignPriorities_AnyIndex([gen |-> g,
                                            list |-> InsertAt(s.list, index, en[i]),
                                            known |-> s.known \cup {en[i]}],
                                           en, i + 1)

\* The loop of set_new_operation_priorities over operations[idx], idx = i..size-1.
\* s = [gen, list, known].
RECURSIVE AssignPriorities(_, _, _)
AssignPriorities(s, en, i) ==
    IF i > Len(en) THEN s
    ELSE IF en[i] \in s.known THEN AssignPriorities(s, en, i + 1)
         ELSE LET g == RandomNext(s.gen)
                  index == (g % Len(s.list)) + 1
              IN AssignPriorities([gen |-> g,
                                   list |-> InsertAt(s.list, index, en[i]),
                                   known |-> s.known \cup {en[i]}],
                                  en, i + 1)

\* Variant of set_new_operation_priorities that puts the new operations in
\* front of the operations already in the priority list.
set_new_operation_priorities_Front(s, en, current) ==
    LET seeded == IF Len(s.list) = 0
                  THEN [s EXCEPT !.list = <<current>>, !.known = @ \cup {current}]
                  ELSE s
        a == AssignPriorities(seeded, en, 1)
    IN [a EXCEPT !.list = SelectSeq(a.list, LAMBDA id : id \notin seeded.known)
                          \o SelectSeq(a.list, LAMBDA id : id \in seeded.known)]

\* Variant of set_new_operation_priorities that seeds the list with the current
\* operation without recording it as known.
set_new_operation_priorities_SeedUnknown(s, en, current) ==
    LET seeded == IF Len(s.list) = 0 THEN [s EXCEPT !.list = <<current>>] ELSE s
    IN AssignPriorities(seeded, en, 1)

\* PCTStrategy::set_new_operation_priorities.
set_new_operation_priorities(s, en, current) ==
    LET seeded == IF Len(s.list) = 0
                  THEN [s EXCEPT !.list = <<current>>, !.known = @ \cup {current}]
                  ELSE s
    IN AssignPriorities(seeded, en, 1)

\* Variant of try_deprioritize_operation_with_highest_priority without the test
\* for a single enabled operation.
try_deprioritize_operation_with_highest_priority_Always(list, en, steps, points) ==
    IF steps \notin points THEN list
    ELSE LET op == get_operation_with_highest_priority(list, en)
         IN IF op = -1 THEN list
            ELSE Append(RemoveAll(list, op), op)

\* PCTStrategy::try_deprioritize_operation_with_highest_priority: the list after.
try_deprioritize_operation_with_highest_priority(list, en, steps, points) ==
    IF Len(en) <= 1 \/ steps \notin points THEN list
    ELSE LET op == get_operation_with_highest_priority(list, en)
         IN IF op = -1 THEN list
            ELSE Append(RemoveAll(list, op), op)

\* PCTStrategy::next_operation on the enabled view en with current operation
\* `current`: the id returned and the strategy's fields after the call.
next_operation(en, current) ==
    LET s1 == set_new_operation_priorities(
                  [gen |-> generator, list |-> prioritized_operations,
                   known |-> known_operations], en, current)
        l2 == try_deprioritize_operation_with_highest_priority(
                  s1.list, en, scheduled_steps, priority_change_points)
    IN [next |-> get_operation_with_highest_priority(l2, en),
        gen |-> s1.gen, list |-> l2, known |-> s1.known,
        steps |-> scheduled_steps + 1]

\* One step idx of the Fisher-Yates loop of shuffle_priority_change_points,
\* idx running from Len(range) down to 2 (1-based). s = [gen, range].
RECURSIVE ShuffleFrom(_, _)
ShuffleFrom(s, idx) ==
    IF idx < 2 THEN s
    ELSE LET g == RandomNext(s.gen)
             point == (g % Len(s.range)) + 1
             swapped == [s.range EXCEPT ![idx] = s.range[point],
                                        ![point] = s.range[idx]]
         IN ShuffleFrom([gen |-> g, range |-> swapped], idx - 1)

\* Variant of shuffle_priority_change_points that keeps every point of the
\* shuffled range, not only the first max_priority_switches.
shuffle_priority_change_points_NoCap(gen, len) ==
    IF len > 1
    THEN LET range == [i \in 1..(len - 1) |-> i]
             s == ShuffleFrom([gen |-> gen, range |-> range], Len(range))
         IN [gen |-> s.gen, points |-> {s.range[i] : i \in 1..Len(range)}]
    ELSE [gen |-> gen, points |-> {}]

\* PCTStrategy::shuffle_priority_change_points for schedule length `len`:
\* the generator after, and the change points chosen.
shuffle_priority_change_points(gen, len) ==
    IF len > 1
    THEN LET range == [i \in 1..(len - 1) |-> i]
             s == ShuffleFrom([gen |-> gen, range |-> range], Len(range))
             count == Min(max_priority_switches, Len(range))
         IN [gen |-> s.gen, points |-> {s.range[i] : i \in 1..count}]
    ELSE [gen |-> gen, points |-> {}]

\* Variant of prepare_next_iteration that overwrites schedule_length with the
\* steps of the iteration that ended.
prepare_next_iteration_Overwrite(iteration) ==
    IF iteration > 1
    THEN LET sh == shuffle_priority_change_points(generator, scheduled_steps)
         IN [gen |-> sh.gen, list |-> <<>>, known |-> {}, points |-> sh.points,
             steps |-> 0, length |-> scheduled_steps]
    ELSE [gen |-> generator, list |-> prioritized_operations,
          known |-> known_operations, points |-> priority_change_points,
          steps |-> scheduled_steps, length |-> schedule_length]

\* PCTStrategy::prepare_next_iteration: the strategy's fields after the call.
prepare_next_iteration(iteration) ==
    IF iteration > 1
    THEN LET len == IF schedule_length < scheduled_steps
                    THEN scheduled_steps ELSE schedule_length
             sh == shuffle_priority_change_points(generator, len)
         IN [gen |-> sh.gen, list |-> <<>>, known |-> {}, points |-> sh.points,
             steps |-> 0, length |-> len]
    ELSE [gen |-> generator, list |-> prioritized_operations,
          known |-> known_operations, points |-> priority_change_points,
          steps |-> scheduled_steps, length |-> schedule_length]

\* ------------------------------------------------------------ kernel helpers
NoPark == [op |-> 0, iter |-> 0, after |-> "run"]

\* Threads blocked in cv.wait on the condition variable of Operation `id` of the
\* current iteration.
WaitersOn(id) ==
    {u \in DOMAIN pc : pc[u] \in {"start_wait", "sched_wait"}
                   /\ park[u].op = id /\ park[u].iter = iteration_count}

\* Threads blocked in pending_operations_cv.wait.
PendingWaiters == {u \in DOMAIN pc : pc[u] = "pending_wait"}

\* An entry point of thread t ends by throwing `code` before it changed anything:
\* the catch block stores the code and the entry point returns it.
Throw(t, code, after) ==
    /\ last_error_code' = code
    /\ pc' = [pc EXCEPT ![t] = after]
    /\ UNCHANGED <<operation_map, operations, resource_map, scheduled_op_id,
                   pending_start_operation_count, is_attached, iteration_count,
                   strategy_vars, park, notified>>

\* An entry point that changed only the kernel's maps returns normally.
Return(t) ==
    /\ pc' = [pc EXCEPT ![t] = "run"]
    /\ UNCHANGED <<last_error_code, park, notified>>

\* SchedulerClient::create_operation_inner on map om: the map after, the
\* scheduled id after, and the error thrown ("none" when none).
create_operation_inner(om, sched, id) ==
    IF id \notin DOMAIN om
    THEN LET first == DOMAIN om = {}
             rec == IF first THEN [NewOperation EXCEPT !.is_scheduled = TRUE]
                    ELSE NewOperation
         IN [om |-> [o \in DOMAIN om \cup {id} |-> IF o = id THEN rec ELSE om[o]],
             sched |-> IF first THEN id ELSE sched,
             err |-> "none"]
    ELSE IF om[id].status = "Completed"
         THEN LET revived == [om EXCEPT ![id].status = "None",
                                        ![id].is_scheduled = FALSE]
                  only == DOMAIN om = {id}
              IN [om |-> IF only THEN [revived EXCEPT ![id].is_scheduled = TRUE]
                         ELSE revived,
                  sched |-> IF only THEN id ELSE sched,
                  err |-> "none"]
         ELSE [om |-> om, sched |-> sched, err |-> "DuplicateOperation"]

\* Variant of EndOfSchedule that never reports a deadlock.
EndOfSchedule_NoDeadlock(ops) == "Success"

\* The code schedule_next_inner throws when no operation is enabled: a deadlock
\* when the enabled set still has (disabled) members, the end of the schedule
\* otherwise.
EndOfSchedule(ops) == IF OpsTotal(ops) > 0 THEN "DeadlockDetected" ELSE "Success"

\* The part of schedule_next_inner after the pending-start wait: the deadlock /
\* end-of-schedule check, the strategy's decision and the hand-over of the
\* token, run by thread t on the map om and the enabled set ops.
SchedulePick(t, om, ops, after) ==
    LET en == EnabledView(ops) IN
    IF Len(en) = 0
    THEN LET code == EndOfSchedule(ops)
         IN /\ operation_map' = om
            /\ operations' = ops
            /\ last_error_code' = code
            /\ pc' = [pc EXCEPT ![t] = after]
            /\ UNCHANGED <<scheduled_op_id, strategy_vars, park, notified>>
    ELSE
        LET r == next_operation(en, scheduled_op_id)
            next_id == r.next
            previous_id == scheduled_op_id
        IN
        /\ generator' = r.gen
        /\ prioritized_operations' = r.list
        /\ known_operations' = r.known
        /\ scheduled_steps' = r.steps
        /\ UNCHANGED <<priority_change_points, schedule_length>>
        /\ operations' = ops
        /\ IF next_id = -1
           THEN \* ErrorCode::InternalError is caught by catch (...)
                /\ operation_map' = om
                /\ last_error_code' = "Failure"
                /\ pc' = [pc EXCEPT ![t] = after]
                /\ UNCHANGED <<scheduled_op_id, park, notified>>
           ELSE
                /\ scheduled_op_id' = next_id
                /\ UNCHANGED last_error_code
                /\ IF previous_id # next_id
                   THEN LET om2 == [om EXCEPT ![next_id].is_scheduled = TRUE]
                            pause == om2[previous_id].status # "Completed"
                        IN /\ operation_map' =
                                 IF pause
                                 THEN [om2 EXCEPT ![previous_id].is_scheduled = FALSE]
                                 ELSE om2
                           /\ notified' = (notified \cup WaitersOn(next_id)) \ {t}
                           /\ IF pause
                              THEN /\ pc' = [pc EXCEPT ![t] = "sched_wait"]
                                   /\ park' = [park EXCEPT ![t] =
                                                [op |-> previous_id,
                                                 iter |-> iteration_count,
                                                 after |-> after]]
                              ELSE /\ pc' = [pc EXCEPT ![t] = after]
                                   /\ park' = [park EXCEPT ![t] = NoPark]
                   ELSE /\ operation_map' = om
                        /\ pc' = [pc EXCEPT ![t] = after]
                        /\ park' = [park EXCEPT ![t] = NoPark]
                        /\ notified' = notified \ {t}

\* Variant of schedule_next_inner without the wait for pending starts.
schedule_next_inner_NoWait(t, om, ops, after) == SchedulePick(t, om, ops, after)

\* SchedulerClient::schedule_next_inner run by thread t after its entry point
\* changed the map to om and the enabled set to ops.
schedule_next_inner(t, om, ops, after) ==
    IF pending_start_operation_count # 0
    THEN /\ operation_map' = om
         /\ operations' = ops
         /\ pc' = [pc EXCEPT ![t] = "pending_wait"]
         /\ park' = [park EXCEPT ![t] =
                        [op |-> scheduled_op_id, iter |-> iteration_count,
                         after |-> after]]
         /\ UNCHANGED <<scheduled_op_id, strategy_vars, last_error_code,
                        notified>>
    ELSE SchedulePick(t, om, ops, after)

\* ------------------------------------------------------------ entry points
EmptyMap == [o \in {} |-> 0]

\* The error each entry point throws before it changes anything ("none" when
\* the call is accepted).
AttachError == IF is_attached THEN "ClientAttached" ELSE "none"

DetachError == IF ~is_attached THEN "ClientNotAttached" ELSE "none"

CreateError(id) ==
    IF ~is_attached THEN "ClientNotAttached"
    ELSE IF id = main_op_id THEN "MainOperationExplicitlyCreated"
    ELSE create_operation_inner(operation_map, scheduled_op_id, id).err

StartError(id) ==
    IF ~is_attached THEN "ClientNotAttached"
    ELSE IF id = main_op_id THEN "MainOperationExplicitlyStarted"
    ELSE IF id \notin DOMAIN operation_map THEN "NotExistingOperation"
    ELSE IF operation_map[id].status = "Completed" THEN "OperationAlreadyCompleted"
    ELSE IF operation_map[id].status # "None" THEN "OperationAlreadyStarted"
    ELSE "none"

JoinError(id) ==
    IF ~is_attached THEN "ClientNotAttached"
    ELSE IF id \notin DOMAIN operation_map THEN "NotExistingOperation"
    ELSE "none"

\* Variant of CompleteError that accepts the main operation.
CompleteError_AcceptMain(id) ==
    IF ~is_attached THEN "ClientNotAttached"
    ELSE IF id \notin DOMAIN operation_map THEN "NotExistingOperation"
    ELSE IF operation_map[id].status = "Completed" THEN "OperationAlreadyCompleted"
    ELSE IF operation_map[id].status = "None" THEN "OperationNotStarted"
    ELSE "none"

CompleteError(id) ==
    IF ~is_attached THEN "ClientNotAttached"
    ELSE IF id = main_op_id THEN "MainOperationExplicitlyCompleted"
    ELSE IF id \notin DOMAIN operation_map THEN "NotExistingOperation"
    ELSE IF operation_map[id].status = "Completed" THEN "OperationAlreadyCompleted"
    ELSE IF operation_map[id].status = "None" THEN "OperationNotStarted"
    ELSE "none"

CreateResourceError(r) ==
    IF ~is_attached THEN "ClientNotAttached"
    ELSE IF r \in DOMAIN resource_map THEN "DuplicateResource"
    ELSE "none"

ResourceError(r) ==
    IF ~is_attached THEN "ClientNotAttached"
    ELSE IF r \notin DOMAIN resource_map THEN "NotExistingResource"
    ELSE "none"

ScheduleError == IF ~is_attached THEN "ClientNotAttached" ELSE "none"

\* Variant of Attach that leaves last_error_code as it was.
Attach_KeepError(t) ==
    /\ pc[t] = "run"
    /\ t = main_op_id
    /\ IF AttachError # "none"
       THEN Throw(t, AttachError, "run")
       ELSE LET p == prepare_next_iteration(iteration_count + 1)
                c == create_operation_inner(operation_map, scheduled_op_id, main_op_id)
                \* start_operation_inner(main_op_id)
                om == [c.om EXCEPT ![main_op_id].status = "Enabled"]
            IN /\ iteration_count < MaxIterations
               /\ c.err = "none"
               /\ om[main_op_id].is_scheduled
               /\ is_attached' = TRUE
               /\ iteration_count' = iteration_count + 1
               /\ UNCHANGED last_error_code
               /\ generator' = p.gen
               /\ prioritized_operations' = p.list
               /\ known_operations' = p.known
               /\ priority_change_points' = p.points
               /\ scheduled_steps' = p.steps
               /\ schedule_length' = p.length
               /\ operation_map' = om
               /\ scheduled_op_id' = c.sched
               /\ operations' = OpsInsert(operations, main_op_id)
               /\ pending_start_operation_count' = pending_start_operation_count
               /\ notified' = IF pending_start_operation_count = 0
                              THEN notified \cup PendingWaiters ELSE notified
               /\ pc' = [pc EXCEPT ![t] = "run"]
               /\ UNCHANGED <<resource_map, park>>

\* SchedulerClient::attach, called by the main thread.
Attach(t) ==
    /\ pc[t] = "run"
    /\ t = main_op_id
    /\ IF AttachError # "none"
       THEN Throw(t, AttachError, "run")
       ELSE LET p == prepare_next_iteration(iteration_count + 1)
                c == create_operation_inner(operation_map, scheduled_op_id, main_op_id)
                \* start_operation_inner(main_op_id)
                om == [c.om EXCEPT ![main_op_id].status = "Enabled"]
            IN /\ iteration_count < MaxIterations
               /\ c.err = "none"
               /\ om[main_op_id].is_scheduled
               /\ is_attached' = TRUE
               /\ iteration_count' = iteration_count + 1
               /\ last_error_code' = "Success"
               /\ generator' = p.gen
               /\ prioritized_operations' = p.list
               /\ known_operations' = p.known
               /\ priority_change_points' = p.points
               /\ scheduled_steps' = p.steps
               /\ schedule_length' = p.length
               /\ operation_map' = om
               /\ scheduled_op_id' = c.sched
               /\ operations' = OpsInsert(operations, main_op_id)
               /\ pending_start_operation_count' = pending_start_operation_count
               /\ notified' = IF pending_start_operation_count = 0
                              THEN notified \cup PendingWaiters ELSE notified
               /\ pc' = [pc EXCEPT ![t] = "run"]
               /\ UNCHANGED <<resource_map, park>>

\* Variant of Detach that does not reset the pending-start counter.
Detach_KeepPending(t) ==
    /\ pc[t] = "run"
    /\ t = main_op_id
    /\ IF DetachError # "none"
       THEN Throw(t, DetachError, "run")
       ELSE LET cancelled == {o \in DOMAIN operation_map :
                                 o # main_op_id
                                 /\ operation_map[o].status # "Completed"}
            IN /\ is_attached' = FALSE
               /\ notified' = notified \cup UNION {WaitersOn(o) : o \in cancelled}
               /\ operation_map' = EmptyMap
               /\ operations' = <<>>
               /\ resource_map' = EmptyMap
               /\ UNCHANGED pending_start_operation_count
               /\ pc' = [pc EXCEPT ![t] = "run"]
               /\ UNCHANGED <<scheduled_op_id, iteration_count, last_error_code,
                              strategy_vars, park>>

\* SchedulerClient::detach, called by the main thread.
Detach(t) ==
    /\ pc[t] = "run"
    /\ t = main_op_id
    /\ IF DetachError # "none"
       THEN Throw(t, DetachError, "run")
       ELSE LET cancelled == {o \in DOMAIN operation_map :
                                 o # main_op_id
                                 /\ operation_map[o].status # "Completed"}
            IN /\ is_attached' = FALSE
               /\ notified' = notified \cup UNION {WaitersOn(o) : o \in cancelled}
               /\ operation_map' = EmptyMap
               /\ operations' = <<>>
               /\ resource_map' = EmptyMap
               /\ pending_start_operation_count' = 0
               /\ pc' = [pc EXCEPT ![t] = "run"]
               /\ UNCHANGED <<scheduled_op_id, iteration_count, last_error_code,
                              strategy_vars, park>>

\* SchedulerClient::create_operation; on success the client spawns the thread of
\* the new operation, which will call start_operation.
CreateOperation(t, id) ==
    /\ pc[t] = "run"
    /\ IF CreateError(id) # "none"
       THEN Throw(t, CreateError(id), "run")
       ELSE LET c == create_operation_inner(operation_map, scheduled_op_id, id)
            IN /\ pc[id] \in {"none", "done"}
               /\ operation_map' = c.om
               /\ scheduled_op_id' = c.sched
               /\ pending_start_operation_count' = pending_start_operation_count + 1
               /\ pc' = [pc EXCEPT ![t] = "run", ![id] = "ready"]
               /\ UNCHANGED <<operations, resource_map, is_attached,
                              iteration_count, last_error_code, strategy_vars,
                              park, notified>>

\* Variant of StartOperation without the park loop: the new operation runs at
\* once, scheduled or not.
StartOperation_NoPark(t, id) ==
    /\ pc[t] = "ready" /\ id = t
    /\ StartError(id) = "none"
    /\ pending_start_operation_count' = pending_start_operation_count - 1
    /\ operation_map' = [operation_map EXCEPT ![id].status = "Enabled"]
    /\ operations' = OpsInsert(operations, id)
    /\ notified' = (IF pending_start_operation_count = 1
                    THEN notified \cup PendingWaiters ELSE notified)
                   \cup WaitersOn(id)
    /\ pc' = [pc EXCEPT ![t] = "run"]
    /\ UNCHANGED <<resource_map, scheduled_op_id, is_attached, iteration_count,
                   last_error_code, strategy_vars, park>>

\* SchedulerClient::start_operation up to its park loop: the first call of the
\* thread of operation id, or a call by a running thread that is rejected.
StartOperation(t, id) ==
    LET err == StartError(id)
        after == IF pc[t] = "ready" THEN "done" ELSE "run"
    IN
    /\ \/ pc[t] = "ready" /\ id = t
       \/ pc[t] = "run" /\ err # "none"
    /\ IF err # "none"
       THEN Throw(t, err, after)
       ELSE LET count == IF pending_start_operation_count = 0
                         THEN -1     \* size_t wraps to SIZE_MAX
                         ELSE pending_start_operation_count - 1
            IN /\ pending_start_operation_count' = count
               /\ operation_map' = [operation_map EXCEPT ![id].status = "Enabled"]
               /\ operations' = OpsInsert(operations, id)
               /\ notified' = (IF count = 0 THEN notified \cup PendingWaiters
                               ELSE notified) \cup WaitersOn(id)
               /\ IF operation_map[id].is_scheduled
                  THEN /\ pc' = [pc EXCEPT ![t] = "run"]
                       /\ UNCHANGED park
                  ELSE /\ pc' = [pc EXCEPT ![t] = "start_wait"]
                       /\ park' = [park EXCEPT ![t] =
                                      [op |-> id, iter |-> iteration_count,
                                       after |-> "run"]]
               /\ UNCHANGED <<resource_map, scheduled_op_id, is_attached,
                              iteration_count, last_error_code, strategy_vars>>

\* SchedulerClient::join_operation.
JoinOperation(t, id) ==
    /\ pc[t] = "run"
    /\ IF JoinError(id) # "none"
       THEN Throw(t, JoinError(id), "run")
       ELSE IF operation_map[id].status = "Completed"
       THEN /\ Return(t)
            /\ UNCHANGED <<kernel_vars, strategy_vars>>
       ELSE LET om1 == [operation_map EXCEPT ![id].blocked_operation_ids =
                                                 @ \cup {scheduled_op_id}]
                om2 == [om1 EXCEPT ![scheduled_op_id] =
                                       OpJoinOperations(@, {id}, TRUE)]
            IN /\ schedule_next_inner(t, om2, OpsDisable(operations, scheduled_op_id),
                                      "run")
               /\ UNCHANGED <<resource_map, pending_start_operation_count,
                              is_attached, iteration_count>>

\* The loop of join_operations over operation_ids[i..]: the map after, the
\* targets that are not completed, and the error thrown.
RECURSIVE JoinLoop(_, _, _, _)
JoinLoop(om, ids, i, joined) ==
    IF i > Len(ids) THEN [om |-> om, joined |-> joined, err |-> "none"]
    ELSE IF ids[i] \notin DOMAIN om
    THEN [om |-> om, joined |-> joined, err |-> "NotExistingOperation"]
    ELSE IF om[ids[i]].status # "Completed"
    THEN JoinLoop([om EXCEPT ![ids[i]].blocked_operation_ids =
                                 @ \cup {scheduled_op_id}],
                  ids, i + 1, joined \cup {ids[i]})
    ELSE JoinLoop(om, ids, i + 1, joined)

JoinsError(ids) ==
    IF ~is_attached THEN "ClientNotAttached"
    ELSE JoinLoop(operation_map, ids, 1, {}).err

\* SchedulerClient::join_operations.
JoinOperations(t, ids, wait_all) ==
    /\ pc[t] = "run"
    /\ IF ~is_attached
       THEN Throw(t, "ClientNotAttached", "run")
       ELSE LET j == JoinLoop(operation_map, ids, 1, {})
            IN IF j.err # "none"
               THEN /\ operation_map' = j.om
                    /\ last_error_code' = j.err
                    /\ pc' = [pc EXCEPT ![t] = "run"]
                    /\ UNCHANGED <<operations, resource_map, scheduled_op_id,
                                   pending_start_operation_count, is_attached,
                                   iteration_count, strategy_vars, park, notified>>
               ELSE IF j.joined = {}
               THEN /\ Return(t)
                    /\ UNCHANGED <<kernel_vars, strategy_vars>>
               ELSE LET om2 == [j.om EXCEPT ![scheduled_op_id] =
                                      OpJoinOperations(@, j.joined, wait_all)]
                    IN /\ schedule_next_inner(t, om2,
                                              OpsDisable(operations, scheduled_op_id),
                                              "run")
                       /\ UNCHANGED <<resource_map, pending_start_operation_count,
                                      is_attached, iteration_count>>

\* Variant of CompleteOperation that re-enables every blocked joiner of the
\* completed operation, whatever on_join_operation returned.
CompleteOperation_WakeAll(t, id) ==
    LET err == CompleteError(id) IN
    /\ pc[t] = "run"
    /\ id = t \/ err # "none"
    /\ IF err # "none"
       THEN Throw(t, err, "run")
       ELSE LET om1 == [operation_map EXCEPT ![id].status = "Completed"]
                joiners == om1[id].blocked_operation_ids
                om2 == [o \in DOMAIN om1 |->
                           IF o \in joiners /\ om1[o].status = "Blocked"
                           THEN [om1[o] EXCEPT !.status = "Enabled",
                                               !.join_ids = {},
                                               !.join_all = FALSE]
                           ELSE om1[o]]
                woken == {o \in joiners : Unblocked(om1[o], om2[o])}
                ops1 == OpsRemove(operations, id)
                ops2 == [i \in 1..Len(ops1) |->
                            IF ops1[i].id \in woken
                            THEN [ops1[i] EXCEPT !.enabled = TRUE] ELSE ops1[i]]
            IN /\ schedule_next_inner(t, om2, ops2, "done")
               /\ UNCHANGED <<resource_map, pending_start_operation_count,
                              is_attached, iteration_count>>

\* SchedulerClient::complete_operation: the thread of operation id completes it,
\* or a running thread makes a call that is rejected.
CompleteOperation(t, id) ==
    LET err == CompleteError(id) IN
    /\ pc[t] = "run"
    /\ id = t \/ err # "none"
    /\ IF err # "none"
       THEN Throw(t, err, "run")
       ELSE LET om1 == [operation_map EXCEPT ![id].status = "Completed"]
                joiners == om1[id].blocked_operation_ids
                om2 == [o \in DOMAIN om1 |->
                           IF o \in joiners THEN OpOnJoinOperation(om1[o], id)
                           ELSE om1[o]]
                woken == {o \in joiners : Unblocked(om1[o], om2[o])}
                ops1 == OpsRemove(operations, id)
                ops2 == [i \in 1..Len(ops1) |->
                            IF ops1[i].id \in woken
                            THEN [ops1[i] EXCEPT !.enabled = TRUE] ELSE ops1[i]]
            IN /\ schedule_next_inner(t, om2, ops2, "done")
               /\ UNCHANGED <<resource_map, pending_start_operation_count,
                              is_attached, iteration_count>>

\* SchedulerClient::create_resource.
CreateResource(t, r) ==
    /\ pc[t] = "run"
    /\ IF CreateResourceError(r) # "none"
       THEN Throw(t, CreateResourceError(r), "run")
       ELSE /\ resource_map' = [x \in DOMAIN resource_map \cup {r} |->
                                   IF x = r THEN {} ELSE resource_map[x]]
            /\ Return(t)
            /\ UNCHANGED <<operation_map, operations, scheduled_op_id,
                           pending_start_operation_count, is_attached,
                           iteration_count, strategy_vars>>

\* SchedulerClient::delete_resource.
DeleteResource(t, r) ==
    /\ pc[t] = "run"
    /\ IF ResourceError(r) # "none"
       THEN Throw(t, ResourceError(r), "run")
       ELSE /\ resource_map' = [x \in DOMAIN resource_map \ {r} |-> resource_map[x]]
            /\ Return(t)
            /\ UNCHANGED <<operation_map, operations, scheduled_op_id,
                           pending_start_operation_count, is_attached,
                           iteration_count, strategy_vars>>

\* The loop of wait_resources over resource_ids[i..]: the resource map after and
\* the error thrown.
RECURSIVE WaitLoop(_, _, _)
WaitLoop(rm, rs, i) ==
    IF i > Len(rs) THEN [rm |-> rm, err |-> "none"]
    ELSE IF rs[i] \notin DOMAIN rm
    THEN [rm |-> rm, err |-> "NotExistingResource"]
    ELSE WaitLoop([rm EXCEPT ![rs[i]] = @ \cup {scheduled_op_id}], rs, i + 1)

WaitError(rs) ==
    IF ~is_attached THEN "ClientNotAttached"
    ELSE WaitLoop(resource_map, rs, 1).err

\* SchedulerClient::wait_resources; wait_resource is the case of one resource.
WaitResources(t, rs, wait_all) ==
    /\ pc[t] = "run"
    /\ IF ~is_attached
       THEN Throw(t, "ClientNotAttached", "run")
       ELSE LET om1 == [operation_map EXCEPT ![scheduled_op_id] =
                           OpWaitResourceSignals(@, Range(rs), wait_all)]
                ops1 == OpsDisable(operations, scheduled_op_id)
                w == WaitLoop(resource_map, rs, 1)
            IN IF w.err # "none"
               THEN /\ operation_map' = om1
                    /\ operations' = ops1
                    /\ resource_map' = w.rm
                    /\ last_error_code' = w.err
                    /\ pc' = [pc EXCEPT ![t] = "run"]
                    /\ UNCHANGED <<scheduled_op_id, pending_start_operation_count,
                                   is_attached, iteration_count, strategy_vars,
                                   park, notified>>
               ELSE /\ resource_map' = w.rm
                    /\ schedule_next_inner(t, om1, ops1, "run")
                    /\ UNCHANGED <<pending_start_operation_count, is_attached,
                                   iteration_count>>

\* SchedulerClient::wait_resource.
WaitResource(t, r) == WaitResources(t, <<r>>, TRUE)

\* Variant of Signalled that enables every signalled operation, whatever
\* on_resource_signal returned.
Signalled_EnableAll(blocked, r) ==
    [om |-> [o \in DOMAIN operation_map |->
                IF o \in blocked THEN OpOnResourceSignal(operation_map[o], r)
                ELSE operation_map[o]],
     ops |-> [i \in 1..Len(operations) |->
                 IF operations[i].id \in blocked
                 THEN [operations[i] EXCEPT !.enabled = TRUE]
                 ELSE operations[i]]]

\* Variant of Signalled that calls on_resource_signal on the blocked operations
\* but enables none of them in the enabled set.
Signalled_EnableNone(blocked, r) ==
    [om |-> [o \in DOMAIN operation_map |->
                IF o \in blocked THEN OpOnResourceSignal(operation_map[o], r)
                ELSE operation_map[o]],
     ops |-> operations]

\* The operation map and the enabled set after on_resource_signal(r) was called
\* on every operation of `blocked`, enabling those it unblocked.
Signalled(blocked, r) ==
    LET om == [o \in DOMAIN operation_map |->
                  IF o \in blocked THEN OpOnResourceSignal(operation_map[o], r)
                  ELSE operation_map[o]]
        woken == {o \in blocked : Unblocked(operation_map[o], om[o])}
    IN [om |-> om,
        ops |-> [i \in 1..Len(operations) |->
                    IF operations[i].id \in woken
                    THEN [operations[i] EXCEPT !.enabled = TRUE]
                    ELSE operations[i]]]

\* SchedulerClient::signal_resource(resource_id): fan-out to all blocked.
SignalResource(t, r) ==
    /\ pc[t] = "run"
    /\ IF ResourceError(r) # "none"
       THEN Throw(t, ResourceError(r), "run")
       ELSE LET s == Signalled(resource_map[r], r)
            IN /\ operation_map' = s.om
               /\ operations' = s.ops
               /\ resource_map' = [resource_map EXCEPT ![r] = {}]
               /\ Return(t)
               /\ UNCHANGED <<scheduled_op_id, pending_start_operation_count,
                              is_attached, iteration_count, strategy_vars>>

\* Variant of SignalResourceOp that signals and removes every operation of the
\* blocked set, as the fan-out signal does.
SignalResourceOp_All(t, r, id) ==
    /\ pc[t] = "run"
    /\ IF ResourceError(r) # "none"
       THEN Throw(t, ResourceError(r), "run")
       ELSE LET s == Signalled(resource_map[r], r)
            IN /\ operation_map' = s.om
               /\ operations' = s.ops
               /\ resource_map' = [resource_map EXCEPT ![r] = {}]
               /\ Return(t)
               /\ UNCHANGED <<scheduled_op_id, pending_start_operation_count,
                              is_attached, iteration_count, strategy_vars>>

\* SchedulerClient::signal_resource(resource_id, operation_id): targeted.
SignalResourceOp(t, r, id) ==
    /\ pc[t] = "run"
    /\ IF ResourceError(r) # "none"
       THEN Throw(t, ResourceError(r), "run")
       ELSE LET s == Signalled(resource_map[r] \cap {id}, r)
            IN /\ operation_map' = s.om
               /\ operations' = s.ops
               /\ resource_map' = [resource_map EXCEPT ![r] = @ \ {id}]
               /\ Return(t)
               /\ UNCHANGED <<scheduled_op_id, pending_start_operation_count,
                              is_attached, iteration_count, strategy_vars>>

\* SchedulerClient::schedule_next.
ScheduleNext(t) ==
    /\ pc[t] = "run"
    /\ IF ScheduleError # "none"
       THEN Throw(t, ScheduleError, "run")
       ELSE /\ schedule_next_inner(t, operation_map, operations, "run")
            /\ UNCHANGED <<resource_map, pending_start_operation_count,
                           is_attached, iteration_count>>

\* SchedulerClient::next_boolean and next_integer: the call is passed to the
\* strategy (PCTStrategy::next_boolean, next_integer), which counts one more
\* step and draws from the generator; the value returned goes to the client.
NextChoice(t) ==
    /\ pc[t] = "run"
    /\ scheduled_steps' = scheduled_steps + 1
    /\ generator' = RandomNext(generator)
    /\ UNCHANGED <<kernel_vars, prioritized_operations, known_operations,
                   priority_change_points, schedule_length, thread_vars>>

NextBoolean(t) == NextChoice(t)

NextInteger(t, max_value) == max_value > 0 /\ NextChoice(t)

\* ------------------------------------------------------------ wake-ups
\* A thread returns from pending_operations_cv.wait (notified, or spuriously):
\* it re-tests the loop of schedule_next_inner and goes on when no start is
\* pending.
WakePending(t) ==
    /\ pc[t] = "pending_wait"
    /\ IF pending_start_operation_count # 0
       THEN /\ notified' = notified \ {t}
            /\ UNCHANGED <<kernel_vars, strategy_vars, pc, park>>
       ELSE /\ SchedulePick(t, operation_map, operations, park[t].after)
            /\ UNCHANGED <<resource_map, pending_start_operation_count,
                           is_attached, iteration_count>>

\* Variant of WakeParked in which a woken thread leaves the park loop without
\* testing is_scheduled again.
WakeParked_NoLoop(t, reads) ==
    /\ pc[t] \in {"start_wait", "sched_wait"}
    /\ reads
    /\ IF ~is_attached
       THEN /\ last_error_code' = "ClientNotAttached"
            /\ pc' = [pc EXCEPT ![t] = "done"]
       ELSE /\ pc' = [pc EXCEPT ![t] = park[t].after]
            /\ UNCHANGED last_error_code
    /\ park' = [park EXCEPT ![t] = NoPark]
    /\ notified' = notified \ {t}
    /\ UNCHANGED <<operation_map, operations, resource_map, scheduled_op_id,
                   pending_start_operation_count, is_attached, iteration_count,
                   strategy_vars>>

\* A thread returns from the cv.wait of the park loop of start_operation_inner
\* or schedule_next_inner (notified, or spuriously). `reads` is what the loop
\* test reads from the Operation when the Operation was destroyed by detach.
WakeParked(t, reads) ==
    /\ pc[t] \in {"start_wait", "sched_wait"}
    /\ IF ~is_attached
       THEN /\ last_error_code' = "ClientNotAttached"
            /\ pc' = [pc EXCEPT ![t] = "done"]
            /\ park' = [park EXCEPT ![t] = NoPark]
            /\ notified' = notified \ {t}
            /\ UNCHANGED <<operation_map, operations, resource_map,
                           scheduled_op_id, pending_start_operation_count,
                           is_attached, iteration_count, strategy_vars>>
       ELSE LET dangling == park[t].iter # iteration_count
                scheduled == IF dangling THEN reads
                             ELSE operation_map[park[t].op].is_scheduled
            IN /\ dangling \/ reads
               /\ IF scheduled
                  THEN /\ pc' = [pc EXCEPT ![t] = park[t].after]
                       /\ park' = [park EXCEPT ![t] = NoPark]
                  ELSE UNCHANGED <<pc, park>>
               /\ notified' = notified \ {t}
               /\ UNCHANGED <<kernel_vars, strategy_vars>>

\* ------------------------------------------------------------ specification
\* The state after the constructors of SchedulerClient and PCTStrategy, but for
\* the seed of the generator and the client's threads.
KernelInit ==
    /\ operation_map = EmptyMap
    /\ operations = <<>>
    /\ resource_map = EmptyMap
    /\ scheduled_op_id = 0
    /\ pending_start_operation_count = 0
    /\ is_attached = FALSE
    /\ iteration_count = 0
    /\ last_error_code = "Success"
    /\ prioritized_operations = <<>>
    /\ known_operations = {}
    /\ priority_change_points = {}
    /\ scheduled_steps = 0
    /\ schedule_length = 0
    /\ notified = {}

\* The entry points a client program uses, besides attach, create_operation,
\* start_operation, complete_operation and schedule_next; "rejected" stands for
\* calls that an entry point rejects with an error.
Menus ==
    [lifecycle |-> {"detach", "rejected", "join_operation"},
     join |-> {"join_operation", "join_operations"},
     resource |-> {"create_resource", "delete_resource", "wait_resource",
                   "wait_resources", "signal_resource", "signal_resource_op"},
     mixed |-> {"detach", "join_operation", "create_resource", "wait_resource",
                "signal_resource_op"}]

Uses(kind) == kind \in Menus[app.program]

Accepted(err) == Uses("rejected") \/ err = "none"

Init ==
    /\ KernelInit
    /\ generator \in Seeds
    /\ pc = [t \in OpIds |-> IF t = main_op_id THEN "run" ELSE "none"]
    /\ park = [t \in OpIds |-> NoPark]
    /\ calls = 0
    /\ app \in {[program |-> m] : m \in DOMAIN Menus}

\* Argument lists of join_operations and wait_resources.
OpIdLists == {<<a>> : a \in OpIds} \cup
             {<<a, b>> : a \in OpIds \ {0}, b \in OpIds \ {0}}
ResIdLists == {<<a>> : a \in ResIds} \cup {<<a, b>> : a \in ResIds, b \in ResIds}

\* A client thread calls an entry point.
Call(t) ==
    \/ Accepted(AttachError) /\ Attach(t)
    \/ Uses("detach") /\ Accepted(DetachError) /\ Detach(t)
    \/ \E id \in OpIds : Accepted(CreateError(id)) /\ CreateOperation(t, id)
    \/ \E id \in OpIds : Accepted(StartError(id)) /\ StartOperation(t, id)
    \/ \E id \in OpIds :
           Uses("join_operation") /\ Accepted(JoinError(id)) /\ JoinOperation(t, id)
    \/ \E ids \in OpIdLists, wait_all \in BOOLEAN :
           /\ Uses("join_operations") /\ Accepted(JoinsError(ids))
           /\ JoinOperations(t, ids, wait_all)
    \/ \E id \in OpIds : Accepted(CompleteError(id)) /\ CompleteOperation(t, id)
    \/ \E r \in ResIds :
           /\ Uses("create_resource") /\ Accepted(CreateResourceError(r))
           /\ CreateResource(t, r)
    \/ \E r \in ResIds :
           /\ Uses("delete_resource") /\ Accepted(ResourceError(r))
           /\ DeleteResource(t, r)
    \/ \E r \in ResIds : Uses("wait_resource") /\ WaitResource(t, r)
    \/ \E rs \in ResIdLists, wait_all \in BOOLEAN :
           Uses("wait_resources") /\ WaitResources(t, rs, wait_all)
    \/ \E r \in ResIds :
           /\ Uses("signal_resource") /\ Accepted(ResourceError(r))
           /\ SignalResource(t, r)
    \/ \E r \in ResIds, id \in OpIds :
           /\ Uses("signal_resource_op") /\ Accepted(ResourceError(r))
           /\ SignalResourceOp(t, r, id)
    \/ Accepted(ScheduleError) /\ ScheduleNext(t)

Wake(t) ==
    \/ WakePending(t)
    \/ \E reads \in BOOLEAN : WakeParked(t, reads)

Next ==
    \E t \in OpIds :
        \/ calls < MaxCalls /\ Call(t) /\ calls' = calls + 1 /\ UNCHANGED app
        \/ Wake(t) /\ UNCHANGED <<calls, app>>

Spec == Init /\ [][Next]_vars

\* ------------------------------------------------------------ scenarios
\* A scripted client program: each thread makes the calls of its script in
\* order. A statement is a tuple: the entry point and its arguments.
AllSeeds == 1..16

ScenarioThreads == 0..2

S1Program(t) ==
    IF t = main_op_id
    THEN <<(<<"attach">>), <<"create_operation", 1>>, <<"create_operation", 2>>,
           <<"join_operations", <<1, 2>>, TRUE>>>>
    ELSE <<(<<"start_operation", t>>), <<"schedule_next">>,
           <<"complete_operation", t>>>>

\* Scenario S2, main yielding to 1 and 2 without staying blocked: each of them
\* signals the resource main waits for before it joins the other.
S2Program(t) ==
    IF t = main_op_id
    THEN <<(<<"attach">>), <<"create_resource", 1>>, <<"create_operation", 1>>,
           <<"create_operation", 2>>, <<"wait_resource", 1>>,
           <<"wait_resource", 1>>, <<"schedule_next">>, <<"join_operation", 1>>>>
    ELSE <<(<<"start_operation", t>>), <<"signal_resource", 1>>,
           <<"join_operation", 3 - t>>, <<"complete_operation", t>>>>

\* Scenario S2, main blocked on 1 and 2.
S2JoinProgram(t) ==
    IF t = main_op_id
    THEN <<(<<"attach">>), <<"create_operation", 1>>, <<"create_operation", 2>>,
           <<"join_operations", <<1, 2>>, TRUE>>>>
    ELSE <<(<<"start_operation", t>>), <<"join_operation", 3 - t>>,
           <<"complete_operation", t>>>>

\* Scenario S1, main yielding through schedule_next instead of joining.
S1YieldProgram(t) ==
    IF t = main_op_id
    THEN <<(<<"attach">>), <<"create_operation", 1>>, <<"create_operation", 2>>,
           <<"schedule_next">>, <<"schedule_next">>>>
    ELSE <<(<<"start_operation", t>>), <<"schedule_next">>,
           <<"complete_operation", t>>>>

Program(name, t) ==
    CASE name = "S1" -> S1Program(t)
      [] name = "S1_yield" -> S1YieldProgram(t)
      [] name = "S2" -> S2Program(t)
      [] name = "S2_main_blocked" -> S2JoinProgram(t)

\* Thread t makes the call of statement c.
Do(t, c) ==
    CASE c[1] = "attach" -> Attach(t)
      [] c[1] = "detach" -> Detach(t)
      [] c[1] = "create_operation" -> CreateOperation(t, c[2])
      [] c[1] = "start_operation" -> StartOperation(t, c[2])
      [] c[1] = "join_operation" -> JoinOperation(t, c[2])
      [] c[1] = "join_operations" -> JoinOperations(t, c[2], c[3])
      [] c[1] = "complete_operation" -> CompleteOperation(t, c[2])
      [] c[1] = "create_resource" -> CreateResource(t, c[2])
      [] c[1] = "wait_resource" -> WaitResource(t, c[2])
      [] c[1] = "signal_resource" -> SignalResource(t, c[2])
      [] c[1] = "schedule_next" -> ScheduleNext(t)

\* The sequence of values scheduled_op_id takes is recorded in app.trace.
Observe(a) ==
    [a EXCEPT !.trace = IF scheduled_op_id' # scheduled_op_id
                        THEN Append(@, scheduled_op_id') ELSE @]

ScriptInit(programs) ==
    /\ KernelInit
    /\ generator \in AllSeeds
    /\ pc = [t \in ScenarioThreads |-> IF t = main_op_id THEN "run" ELSE "none"]
    /\ park = [t \in ScenarioThreads |-> NoPark]
    /\ calls = 0
    /\ app \in {[program |-> p, step |-> [t \in ScenarioThreads |-> 1],
                 run |-> 1, seed |-> generator, trace |-> <<>>, first |-> <<>>] :
                    p \in programs}

ScriptCall(t) ==
    LET prog == Program(app.program, t)
        i == app.step[t]
    IN /\ i <= Len(prog)
       /\ Do(t, prog[i])
       /\ app' = Observe([app EXCEPT !.step[t] = i + 1])
       /\ calls' = calls + 1

ScriptWake(t) == Wake(t) /\ app' = Observe(app) /\ UNCHANGED calls

ScriptNext == \E t \in DOMAIN pc : ScriptCall(t) \/ ScriptWake(t)

\* Every thread made all the calls of its script and returned from the last.
Finished ==
    \A t \in DOMAIN pc :
        /\ app.step[t] > Len(Program(app.program, t))
        /\ pc[t] \in {"run", "done"}

\* The process is run a second time with the same seed: the constructors run
\* again; the trace and the scheduled_steps of the first run are kept.
Restart ==
    /\ app.run = 1
    /\ Finished
    /\ operation_map' = EmptyMap
    /\ operations' = <<>>
    /\ resource_map' = EmptyMap
    /\ scheduled_op_id' = 0
    /\ pending_start_operation_count' = 0
    /\ is_attached' = FALSE
    /\ iteration_count' = 0
    /\ last_error_code' = "Success"
    /\ generator' = app.seed
    /\ prioritized_operations' = <<>>
    /\ known_operations' = {}
    /\ priority_change_points' = {}
    /\ scheduled_steps' = 0
    /\ schedule_length' = 0
    /\ pc' = [t \in DOMAIN pc |-> IF t = main_op_id THEN "run" ELSE "none"]
    /\ park' = [t \in DOMAIN pc |-> NoPark]
    /\ notified' = {}
    /\ calls' = 0
    /\ app' = [app EXCEPT !.run = 2, !.step = [t \in DOMAIN pc |-> 1],
                          !.trace = <<>>,
                          !.first = <<app.trace, scheduled_steps>>]

\* Two runs of scenario S1 with the same seed.
InitDet == ScriptInit({"S1"})

NextDet == ScriptNext \/ Restart

SpecDet == InitDet /\ [][NextDet]_vars

\* Scenario S1, with main yielding and with main joining.
InitS1 == ScriptInit({"S1", "S1_yield"})

SpecS1 == InitS1 /\ [][ScriptNext]_vars

\* Scenario S2.
InitS2 == ScriptInit({"S2", "S2_main_blocked"})

SpecS2 == InitS2 /\ [][ScriptNext]_vars

\* The reference test: workers guard a section with a mocked semaphore.
NumWorkers == 3

max_allowed == 2

SEMAPHORE_ID == 1

\* run_iteration, the calls of the main thread.
RunIteration ==
    <<(<<"attach">>), <<"create_resource", SEMAPHORE_ID>>>>
    \o [k \in 1..NumWorkers |-> <<"create_operation", k>>]
    \o <<(<<"schedule_next">>)>>
    \o [k \in 1..NumWorkers |-> <<"join_operation", k>>]
    \o <<(<<"detach">>)>>

SemInit ==
    /\ KernelInit
    /\ generator \in AllSeeds
    /\ pc = [t \in 0..NumWorkers |-> IF t = main_op_id THEN "run" ELSE "none"]
    /\ park = [t \in 0..NumWorkers |-> NoPark]
    /\ calls = 0
    /\ app = [program |-> "semaphore",
              step |-> [t \in 0..NumWorkers |-> IF t = main_op_id THEN 1 ELSE "start"],
              shared_var |-> 0, max_value_observed |-> 0, current_acquired |-> 0]

\* A statement of the client program that calls no entry point.
Local(t) == pc[t] = "run" /\ UNCHANGED <<kernel_vars, strategy_vars, thread_vars, calls>>

\* main(): the next iteration of the loop resets the shared variables.
SemNextIteration(t) ==
    /\ t = main_op_id
    /\ app.step[t] > Len(RunIteration)
    /\ iteration_count < MaxIterations
    /\ \A w \in 1..NumWorkers : pc[w] = "done"      \* t1.join(), t2.join(), ...
    /\ Local(t)
    /\ app' = [app EXCEPT !.step = [u \in 0..NumWorkers |->
                                       IF u = main_op_id THEN 1 ELSE "start"],
                          !.shared_var = 0, !.max_value_observed = 0,
                          !.current_acquired = 0]

\* run_iteration().
SemMain(t) ==
    /\ t = main_op_id
    /\ app.step[t] <= Len(RunIteration)
    /\ Do(t, RunIteration[app.step[t]])
    /\ app' = [app EXCEPT !.step[t] = @ + 1]
    /\ calls' = calls + 1

\* work(): start_operation(id).
SemStart(t) ==
    /\ t # main_op_id
    /\ app.step[t] = "start"
    /\ StartOperation(t, t)
    /\ app' = [app EXCEPT !.step[t] = "enter"]
    /\ calls' = calls + 1

\* mock_enter_semaphore(): one test of the while loop, and its body.
SemEnter(t) ==
    /\ t # main_op_id
    /\ app.step[t] = "enter"
    /\ IF app.current_acquired = max_allowed
       THEN /\ WaitResource(t, SEMAPHORE_ID)
            /\ calls' = calls + 1
            /\ UNCHANGED app
       ELSE /\ Local(t)
            /\ app' = [app EXCEPT !.step[t] = "acquire"]

\* mock_enter_semaphore(): current_acquired++.
SemAcquire(t) ==
    /\ t # main_op_id
    /\ app.step[t] = "acquire"
    /\ Local(t)
    /\ app' = [app EXCEPT !.step[t] = "work", !.current_acquired = @ + 1]

\* work(): shared_var++ and the update of max_value_observed.
SemWork(t) ==
    /\ t # main_op_id
    /\ app.step[t] = "work"
    /\ Local(t)
    /\ app' = [app EXCEPT !.step[t] = "yield",
                          !.shared_var = @ + 1,
                          !.max_value_observed =
                              IF app.shared_var + 1 > @ THEN app.shared_var + 1 ELSE @]

\* work(): schedule_next().
SemYield(t) ==
    /\ t # main_op_id
    /\ app.step[t] = "yield"
    /\ ScheduleNext(t)
    /\ app' = [app EXCEPT !.step[t] = "leave"]
    /\ calls' = calls + 1

\* work(): shared_var--.
SemLeave(t) ==
    /\ t # main_op_id
    /\ app.step[t] = "leave"
    /\ Local(t)
    /\ app' = [app EXCEPT !.step[t] = "exit", !.shared_var = @ - 1]

\* mock_exit_semaphore(): current_acquired--.
SemExit(t) ==
    /\ t # main_op_id
    /\ app.step[t] = "exit"
    /\ Local(t)
    /\ app' = [app EXCEPT !.step[t] = "signal", !.current_acquired = @ - 1]

\* mock_exit_semaphore(): signal_operations(SEMAPHORE_ID).
SemSignal(t) ==
    /\ t # main_op_id
    /\ app.step[t] = "signal"
    /\ SignalResource(t, SEMAPHORE_ID)
    /\ app' = [app EXCEPT !.step[t] = "complete"]
    /\ calls' = calls + 1

\* work(): complete_operation(id).
SemComplete(t) ==
    /\ t # main_op_id
    /\ app.step[t] = "complete"
    /\ CompleteOperation(t, t)
    /\ app' = [app EXCEPT !.step[t] = "end"]
    /\ calls' = calls + 1

SemWake(t) == Wake(t) /\ UNCHANGED <<calls, app>>

SemNext ==
    \E t \in DOMAIN pc :
        \/ SemNextIteration(t) \/ SemMain(t) \/ SemStart(t) \/ SemEnter(t)
        \/ SemAcquire(t) \/ SemWork(t) \/ SemYield(t) \/ SemLeave(t)
        \/ SemExit(t) \/ SemSignal(t) \/ SemComplete(t) \/ SemWake(t)

SpecSem == SemInit /\ [][SemNext]_vars

\* The start of the semaphore test with the generator seeded from Seeds.
SemInitSeeds == SemInit /\ generator \in Seeds

\* The semaphore test with threads that the operating system keeps running:
\* while an iteration is attached and some thread can take a step, or its wait
\* can return, a step is eventually taken.
SpecSemFair ==
    /\ SemInitSeeds
    /\ [][SemNext]_vars
    /\ WF_vars(is_attached /\ SemNext)

\* ------------------------------------------------------------ strategy alone
\* The PCT strategy driven directly through its public members, with any
\* arguments: app.decisions counts the decision calls since the last
\* prepare_next_iteration(i) with i > 1, app.ended is that count for the
\* iteration that ended last, app.returned is the id next_operation returned
\* last and app.enabled the enabled operations it was called with.
EnabledLists ==
    {en \in UNION {[1..n -> OpIds] : n \in 1..(MaxOpId + 1)} :
        \A i \in 1..Len(en), j \in 1..Len(en) : i # j => en[i] # en[j]}

PctInit ==
    /\ KernelInit
    /\ generator \in Seeds
    /\ pc = [t \in OpIds |-> IF t = main_op_id THEN "run" ELSE "none"]
    /\ park = [t \in OpIds |-> NoPark]
    /\ calls = 0
    /\ app = [program |-> "strategy", decisions |-> 0, ended |-> 0,
              returned |-> -1, enabled |-> <<>>]

\* strategy->next_operation(operations, current).
PctNextOperation(en, current) ==
    LET r == next_operation(en, current)
    IN /\ generator' = r.gen
       /\ prioritized_operations' = r.list
       /\ known_operations' = r.known
       /\ scheduled_steps' = r.steps
       /\ app' = [app EXCEPT !.decisions = @ + 1, !.returned = r.next,
                             !.enabled = en]
       /\ UNCHANGED <<priority_change_points, schedule_length, kernel_vars,
                      thread_vars>>

\* strategy->next_boolean() and strategy->next_integer(max_value).
PctNextChoice ==
    /\ \/ NextBoolean(main_op_id)
       \/ \E max_value \in 1..2 : NextInteger(main_op_id, max_value)
    /\ app' = [app EXCEPT !.decisions = @ + 1]

\* strategy->prepare_next_iteration(iteration), as attach calls it.
PctPrepare ==
    LET p == prepare_next_iteration(iteration_count + 1)
    IN /\ iteration_count' = iteration_count + 1
       /\ generator' = p.gen
       /\ prioritized_operations' = p.list
       /\ known_operations' = p.known
       /\ priority_change_points' = p.points
       /\ scheduled_steps' = p.steps
       /\ schedule_length' = p.length
       /\ app' = IF iteration_count + 1 > 1
                 THEN [app EXCEPT !.decisions = 0, !.ended = app.decisions]
                 ELSE app
       /\ UNCHANGED <<operation_map, operations, resource_map, scheduled_op_id,
                      pending_start_operation_count, is_attached,
                      last_error_code, thread_vars>>

PctNext ==
    /\ calls < MaxCalls
    /\ calls' = calls + 1
    /\ \/ \E en \in EnabledLists, current \in OpIds : PctNextOperation(en, current)
       \/ PctNextChoice
       \/ PctPrepare

SpecPCT == PctInit /\ [][PctNext]_vars

\* ------------------------------------------------------------ properties
Scheduled == {o \in DOMAIN operation_map : operation_map[o].is_scheduled}

Started == {o \in DOMAIN operation_map :
               operation_map[o].status \in {"Enabled", "Blocked"}}

Suspended(t) == pc[t] \in {"start_wait", "sched_wait", "pending_wait"}

EnabledIds(ops) == Range(EnabledView(ops))

\* C1: in every reachable state at most one operation has is_scheduled = true,
\* and exactly one has it while the kernel is attached.
C1_MutualExclusion ==
    /\ Cardinality(Scheduled) <= 1
    /\ is_attached => Cardinality(Scheduled) = 1

\* C2: while the kernel is attached, at most one started and not completed
\* operation is outside the park loops and the pending-start wait.
C2_Serialization ==
    is_attached => Cardinality({o \in Started : ~Suspended(o)}) <= 1

\* C2's case: two started operations, one running and the other parked.
C2_Witness ==
    /\ is_attached
    /\ \E a \in Started, b \in Started :
           a # b /\ pc[a] = "run" /\ pc[b] \in {"start_wait", "sched_wait"}

\* C3: an operation is in the enabled view of the enabled set if and only if
\* its status is Enabled, also after an entry point returned an error.
C3_EnabledSetFaithful ==
    /\ EnabledIds(operations) \subseteq DOMAIN operation_map
    /\ \A o \in DOMAIN operation_map :
           o \in EnabledIds(operations) <=> operation_map[o].status = "Enabled"

\* C3's case: wait_resource or wait_resources returned NotExistingResource and
\* left its caller running with status Blocked.
C3_Witness ==
    /\ last_error_code = "NotExistingResource"
    /\ \E o \in DOMAIN operation_map :
           /\ operation_map[o].status = "Blocked"
           /\ pc[o] = "run"
           /\ o \notin EnabledIds(operations)

\* C4: while starts are pending no step changes scheduled_op_id or the state of
\* the strategy, and a thread in the pending-operations wait stays there; the
\* start that brings the count to zero notifies the waiting threads, and a
\* waiting thread that wakes with the count at zero leaves the wait.
C4_PendingStartSafety ==
    [][/\ pending_start_operation_count # 0 =>
            /\ scheduled_op_id' = scheduled_op_id
            /\ UNCHANGED strategy_vars
            /\ \A t \in DOMAIN pc :
                   pc[t] = "pending_wait" => pc'[t] = "pending_wait"
       /\ (pending_start_operation_count # 0
           /\ pending_start_operation_count' = 0 /\ is_attached') =>
              PendingWaiters \subseteq notified'
       /\ \A t \in DOMAIN pc :
              (pending_start_operation_count = 0 /\ WakePending(t)) =>
                  pc'[t] # "pending_wait"]_vars

\* C4's case: a thread that waited for a pending start was notified by the
\* start that brought the count to zero.
C4_Witness ==
    /\ is_attached
    /\ pending_start_operation_count = 0
    /\ \E t \in DOMAIN pc : pc[t] = "pending_wait" /\ t \in notified

\* C6, first part: the step that raises DeadlockDetected leaves the strategy
\* and scheduled_op_id alone and ends with members in the enabled set, none
\* of them enabled.
C6_RaisedWithoutStrategy ==
    [][(last_error_code' = "DeadlockDetected"
        /\ last_error_code # "DeadlockDetected") =>
           /\ UNCHANGED <<strategy_vars, scheduled_op_id>>
           /\ EnabledView(operations') = <<>>
           /\ OpsTotal(operations') > 0]_vars

\* C6, second part: once DeadlockDetected was raised the iteration is over, no
\* later entry point of the iteration hands the token over.
C6_DeadlockEndsIteration ==
    [][(last_error_code = "DeadlockDetected" /\ is_attached /\ is_attached'
        /\ iteration_count' = iteration_count) =>
           scheduled_op_id' = scheduled_op_id]_vars

\* C6: DeadlockDetected is raised without consulting the strategy when no
\* operation is enabled, and it ends the iteration.
C6_DeadlockDetection == C6_RaisedWithoutStrategy /\ C6_DeadlockEndsIteration

\* C8: on an attached kernel create_operation of an id that is not the main
\* operation and not in the operation map returns success, and
\* complete_operation of the started operation returns success and leaves the
\* status Completed and the id out of the enabled set.
C8_RoundTrip ==
    [][\A t \in DOMAIN pc, id \in OpIds \ {main_op_id} :
          /\ (is_attached /\ id \notin DOMAIN operation_map
              /\ CreateOperation(t, id)) =>
                 /\ last_error_code' = "Success"
                 /\ operation_map'[id].status = "None"
          /\ (CompleteError(id) = "none" /\ CompleteOperation(t, id)) =>
                 /\ operation_map'[id].status = "Completed"
                 /\ id \notin EnabledIds(operations')
                 /\ pc'[t] = "done" => last_error_code' = "Success"]_vars

\* C9: a signal_resource(r) issued by another operation re-enables an operation
\* that waits for r alone or in mode Any; an operation that waits in mode All
\* stays disabled unless r is its last outstanding resource.
C9_WaitSignal ==
    [][\A t \in DOMAIN pc, r \in ResIds, o \in DOMAIN operation_map :
          (/\ ResourceError(r) = "none"
           /\ SignalResource(t, r)
           /\ o # scheduled_op_id
           /\ operation_map[o].status = "Blocked"
           /\ r \in operation_map[o].res_ids) =>
              IF ~operation_map[o].res_all \/ operation_map[o].res_ids = {r}
              THEN /\ operation_map'[o].status = "Enabled"
                   /\ o \in EnabledIds(operations')
              ELSE /\ operation_map'[o].status = "Blocked"
                   /\ o \notin EnabledIds(operations')]_vars

S2Joined ==
    /\ {1, 2} \subseteq DOMAIN operation_map
    /\ \A k \in {1, 2} : /\ operation_map[k].status = "Blocked"
                         /\ operation_map[k].join_ids = {3 - k}

\* C5: two runs of scenario S1 with the same seed end with the same sequence
\* of scheduled_op_id values and the same scheduled_steps.
C5_Determinism ==
    (app.run = 2 /\ Finished) => <<app.trace, scheduled_steps>> = app.first

\* C7 as stated: with 1 and 2 joined on each other and main not blocked, a
\* schedule_next call of main raises DeadlockDetected.
C7_S2ScheduleNextRaises ==
    [][(is_attached /\ S2Joined /\ operation_map[main_op_id].status = "Enabled"
        /\ ScheduleNext(main_op_id)) =>
           last_error_code' = "DeadlockDetected"]_vars

\* C7 amended: with 1 and 2 joined on each other, DeadlockDetected has been
\* raised if and only if main is blocked as well.
C7_S2DeadlockWhenMainBlocked ==
    (is_attached /\ S2Joined) =>
        (last_error_code = "DeadlockDetected"
            <=> operation_map[main_op_id].status = "Blocked")

\* C7's case: 1 and 2 joined on each other, main blocked, DeadlockDetected.
C7_Witness ==
    /\ is_attached
    /\ S2Joined
    /\ operation_map[main_op_id].status = "Blocked"
    /\ last_error_code = "DeadlockDetected"

Inside == {w \in DOMAIN pc \ {main_op_id} :
              app.step[w] \in {"work", "yield", "leave", "exit"}}

\* C10: in the semaphore test at most max_allowed workers are inside the
\* section at the same time, and max_value_observed never exceeds max_allowed.
C10_BoundedSemaphore ==
    /\ Cardinality(Inside) <= max_allowed
    /\ app.current_acquired <= max_allowed
    /\ app.max_value_observed <= max_allowed

\* C10's case: max_allowed workers were inside the section and a further
\* worker is blocked on the semaphore.
C10_Witness ==
    /\ app.max_value_observed = max_allowed
    /\ \E w \in DOMAIN operation_map :
           /\ w # main_op_id
           /\ operation_map[w].status = "Blocked"
           /\ SEMAPHORE_ID \in operation_map[w].res_ids
           /\ app.step[w] = "enter"

\* C11, effects: create_operation of an id whose operation is Completed sets
\* the status back to None with is_scheduled false and adds one to
\* pending_start_operation_count; create_operation of an id whose operation
\* has any other status returns DuplicateOperation and changes neither the
\* operation map nor pending_start_operation_count.
C11_ReviveEffects ==
    [][\A t \in DOMAIN pc, id \in OpIds \ {main_op_id} :
          (is_attached /\ id \in DOMAIN operation_map /\ CreateOperation(t, id)) =>
              IF operation_map[id].status = "Completed"
              THEN /\ operation_map'[id].status = "None"
                   /\ ~operation_map'[id].is_scheduled
                   /\ pending_start_operation_count' =
                          pending_start_operation_count + 1
                   /\ \A o \in DOMAIN operation_map \ {id} :
                          operation_map'[o] = operation_map[o]
              ELSE /\ last_error_code' = "DuplicateOperation"
                   /\ operation_map' = operation_map
                   /\ pending_start_operation_count' =
                          pending_start_operation_count]_vars

\* C11, result: create_operation of an id whose operation is Completed
\* returns Success.
C11_ReviveSucceeds ==
    [][\A t \in DOMAIN pc, id \in OpIds \ {main_op_id} :
          (/\ is_attached /\ id \in DOMAIN operation_map
           /\ operation_map[id].status = "Completed"
           /\ CreateOperation(t, id)) => last_error_code' = "Success"]_vars

\* C11: reviving a completed id succeeds with the effects above, and creating
\* an id that exists and is not completed is rejected with DuplicateOperation.
C11_ReviveCompleted == C11_ReviveEffects /\ C11_ReviveSucceeds

\* A thread parked in the park loop of start_operation or schedule_next_inner
\* whose iteration was ended by detach.
Cancelled(t) ==
    /\ pc[t] \in {"start_wait", "sched_wait"}
    /\ ~is_attached \/ park[t].iter # iteration_count

\* C12: a thread that was parked in a park loop when detach ended its
\* iteration leaves the entry point only by returning ClientNotAttached.
C12_Cancellation ==
    [][\A t \in DOMAIN pc :
          (Cancelled(t) /\ pc'[t] # pc[t]) =>
              /\ pc'[t] = "done"
              /\ last_error_code' = "ClientNotAttached"]_vars

\* The error codes of rejected calls: every code but Success, DeadlockDetected
\* and Failure.
RejectionCodes ==
    {"ClientAttached", "ClientNotAttached", "DuplicateOperation",
     "NotExistingOperation", "OperationNotStarted", "OperationAlreadyStarted",
     "OperationAlreadyCompleted", "MainOperationExplicitlyCreated",
     "MainOperationExplicitlyStarted", "MainOperationExplicitlyCompleted",
     "DuplicateResource", "NotExistingResource"}

\* C13: a step in which an entry point is called and returns (no thread is
\* newly suspended) with one of the rejection codes leaves scheduled_op_id and
\* the is_scheduled flag of every operation it keeps unchanged and notifies no
\* thread.
C13_ErrorPolicy ==
    [][(/\ calls' = calls + 1
        /\ \A t \in DOMAIN pc :
               pc'[t] \in {"start_wait", "sched_wait", "pending_wait"} =>
                   Suspended(t)
        /\ last_error_code' \in RejectionCodes) =>
           /\ scheduled_op_id' = scheduled_op_id
           /\ \A o \in DOMAIN operation_map \cap DOMAIN operation_map' :
                  operation_map'[o].is_scheduled = operation_map[o].is_scheduled
           /\ notified' \subseteq notified]_vars

\* The operations a step enables.
Woken == {o \in DOMAIN operation_map :
             /\ operation_map[o].status # "Enabled"
             /\ operation_map'[o].status = "Enabled"}

\* The wait of operation o is satisfied by a signal of resource r.
Satisfied(o, r) ==
    /\ operation_map[o].status = "Blocked"
    /\ r \in operation_map[o].res_ids
    /\ ~operation_map[o].res_all \/ operation_map[o].res_ids = {r}

\* What a signal of resource r by thread t leaves alone: the token, every
\* is_scheduled flag, the threads (the caller goes on running, nobody is
\* notified), the strategy, the other resources; the only status changes are
\* the operations it enables, which join the enabled view.
SignalFrame(t, r) ==
    /\ scheduled_op_id' = scheduled_op_id
    /\ DOMAIN operation_map' = DOMAIN operation_map
    /\ \A o \in DOMAIN operation_map :
           /\ operation_map'[o].is_scheduled = operation_map[o].is_scheduled
           /\ operation_map'[o].status # operation_map[o].status => o \in Woken
           /\ [operation_map'[o] EXCEPT !.status = "", !.res_ids = {},
                                        !.res_all = FALSE]
                = [operation_map[o] EXCEPT !.status = "", !.res_ids = {},
                                           !.res_all = FALSE]
    /\ pc'[t] = "run"
    /\ UNCHANGED <<pc, park, notified, strategy_vars,
                   pending_start_operation_count, is_attached, iteration_count>>
    /\ [i \in 1..Len(operations') |-> operations'[i].id]
           = [i \in 1..Len(operations) |-> operations[i].id]
    /\ EnabledIds(operations') = EnabledIds(operations) \cup Woken
    /\ \A x \in DOMAIN resource_map \ {r} : resource_map'[x] = resource_map[x]

\* C14: signal_resource(r) and signal_resource(r, id) keep the token with the
\* caller, who goes on running; signal_resource(r) empties the blocked set of r
\* and enables exactly its members whose wait is satisfied, and
\* signal_resource(r, id) removes at most id from the set and enables at most
\* that operation.
C14_SignalKeepsToken ==
    [][\A t \in DOMAIN pc, r \in ResIds :
          /\ (ResourceError(r) = "none" /\ SignalResource(t, r)) =>
                 /\ SignalFrame(t, r)
                 /\ resource_map'[r] = {}
                 /\ Woken = {o \in resource_map[r] : Satisfied(o, r)}
          /\ \A id \in OpIds :
                 (ResourceError(r) = "none" /\ SignalResourceOp(t, r, id)) =>
                     /\ SignalFrame(t, r)
                     /\ resource_map'[r] = resource_map[r] \ {id}
                     /\ Woken = {o \in resource_map[r] \cap {id} : Satisfied(o, r)}
                     /\ Cardinality(Woken) <= 1]_vars

\* C14's case: an operation that waited for any of several resources was
\* enabled by a signal of one of them (it is still in the blocked set of
\* another) and waits for the token, which the signaller kept.
C14_Witness ==
    /\ is_attached
    /\ \E o \in DOMAIN operation_map, r \in DOMAIN resource_map :
           /\ operation_map[o].status = "Enabled"
           /\ o \in resource_map[r]
           /\ pc[o] = "sched_wait"
           /\ ~operation_map[o].is_scheduled
           /\ scheduled_op_id # o

\* Every target of the list is an existing, completed operation.
AllCompleted(ids) ==
    \A i \in 1..Len(ids) :
        /\ ids[i] \in DOMAIN operation_map
        /\ operation_map[ids[i]].status = "Completed"

\* Thread t joins completed targets only.
JoinsCompleted(t) ==
    /\ is_attached
    /\ \/ \E id \in OpIds : AllCompleted(<<id>>) /\ JoinOperation(t, id)
       \/ \E ids \in OpIdLists, wait_all \in BOOLEAN :
              AllCompleted(ids) /\ JoinOperations(t, ids, wait_all)

\* C15, first part: a join whose targets are all completed returns at once and
\* changes nothing: the caller stays enabled and keeps the token, no joiners
\* set changes, the strategy is not consulted.
C15_JoinCompletedFrame ==
    [][\A t \in DOMAIN pc :
          JoinsCompleted(t) =>
              /\ pc'[t] = "run"
              /\ UNCHANGED <<operation_map, operations, resource_map,
                             scheduled_op_id, pending_start_operation_count,
                             strategy_vars, park, notified>>]_vars

\* C15, first part: a join whose targets are all completed returns without
\* error.
C15_JoinCompletedNoError ==
    [][\A t \in DOMAIN pc :
          JoinsCompleted(t) => last_error_code' = "Success"]_vars

\* C15: join_operation and join_operations on completed targets return at
\* once, without error and without any effect.
C15_JoinOnCompleted == C15_JoinCompletedFrame /\ C15_JoinCompletedNoError

\* C15, second part: a join with a target that is not completed blocks and
\* disables the scheduled operation, and, when no start is pending, passes the
\* token to another operation.
C15_JoinPassesToken ==
    [][\A t \in DOMAIN pc, id \in OpIds :
          (/\ JoinError(id) = "none"
           /\ operation_map[id].status # "Completed"
           /\ JoinOperation(t, id)) =>
              /\ operation_map'[scheduled_op_id].status = "Blocked"
              /\ scheduled_op_id \notin EnabledIds(operations')
              /\ scheduled_op_id \in operation_map'[id].blocked_operation_ids
              /\ pending_start_operation_count = 0 =>
                     scheduled_op_id' # scheduled_op_id]_vars

\* The change points are at most max_priority_switches integers of
\* 1..schedule_length-1.
ChangePointsInRange ==
    /\ Cardinality(priority_change_points) <= max_priority_switches
    /\ \A c \in priority_change_points : c \in Int /\ 1 <= c /\ c < schedule_length

\* C16 as stated: the change points are within bounds, and from the second
\* iteration on there are min(max_priority_switches, schedule_length - 1) of
\* them.
C16_PCTBoundAsStated ==
    /\ ChangePointsInRange
    /\ iteration_count > 1 =>
           Cardinality(priority_change_points) =
               Min(max_priority_switches, schedule_length - 1)

\* C16 amended: the change points are within bounds, and from the second
\* iteration on there are min(max_priority_switches, schedule_length - 1) of
\* them when schedule_length is at least 1 and none when it is 0.
C16_PCTBound ==
    /\ ChangePointsInRange
    /\ iteration_count > 1 =>
           Cardinality(priority_change_points) =
               IF schedule_length >= 1
               THEN Min(max_priority_switches, schedule_length - 1)
               ELSE 0

\* C16's case: a later iteration whose schedule length offers more points than
\* max_priority_switches, of which max_priority_switches were chosen.
C16_Witness ==
    /\ iteration_count > 1
    /\ schedule_length - 1 > max_priority_switches
    /\ Cardinality(priority_change_points) = max_priority_switches

\* C17: schedule_length never decreases, and prepare_next_iteration(i) with
\* i > 1 sets it to the maximum of its value and the number of decision calls
\* (next_operation, next_boolean, next_integer) made since the previous one.
C17_MonotoneLength ==
    [][/\ schedule_length' >= schedule_length
       /\ (PctPrepare /\ iteration_count' > 1) =>
              /\ app'.ended = app.decisions
              /\ schedule_length' =
                     IF schedule_length > app.decisions
                     THEN schedule_length ELSE app.decisions]_vars

\* C17's case: an iteration with fewer decision calls than an earlier one
\* ended, and schedule_length kept the larger value.
C17_Witness ==
    /\ iteration_count > 2
    /\ app.ended > 0
    /\ app.ended < schedule_length
    /\ app.decisions = 0

\* C18: the id next_operation returned is one of the enabled operations it
\* was called with; it is never the -1 of InternalError.
C18_PicksEnabled ==
    app.enabled # <<>> => app.returned \in Range(app.enabled)

\* C18's case: next_operation was called while the operation of highest
\* priority, known from an earlier call, was not enabled, and with a current
\* operation that was not enabled either.
C18_Witness ==
    /\ app.enabled # <<>>
    /\ app.returned \in Range(app.enabled)
    /\ prioritized_operations # <<>>
    /\ Head(prioritized_operations) \notin Range(app.enabled)
    /\ Cardinality(known_operations) > Len(app.enabled)
    /\ iteration_count > 1

\* Sequence p is a prefix of sequence q.
IsPrefix(p, q) == Len(p) <= Len(q) /\ p = SubSeq(q, 1, Len(p))

\* The number of calls of its script the main thread has returned from.
MainReturned ==
    IF pc[main_op_id] = "run" THEN app.step[main_op_id] - 1
    ELSE app.step[main_op_id] - 2

\* C19 as stated: with main yielding through schedule_next, the token goes
\* 0,1,0,2,0 (app.trace holds the holders after the first): main's first
\* schedule_next returns after operation 1 had the token, its second after
\* operation 2 had it, and no entry point returns an error.
C19_S1PingPong ==
    app.program = "S1_yield" =>
        /\ IsPrefix(app.trace, <<1, 0, 2, 0>>)
        /\ MainReturned >= 4 => IsPrefix(<<1, 0>>, app.trace)
        /\ MainReturned >= 5 => IsPrefix(<<1, 0, 2, 0>>, app.trace)
        /\ last_error_code = "Success"

\* C19 amended: no entry point returns an error; while main only yields
\* through schedule_next the token stays with main and operations 1 and 2 do
\* not get past start_operation; when main joins 1 and 2 the token goes
\* 0,1,2,0 or 0,2,1,0.
C19_S1MainKeepsToken ==
    /\ last_error_code = "Success"
    /\ app.program = "S1_yield" =>
           /\ app.trace = <<>>
           /\ scheduled_op_id = main_op_id
           /\ \A t \in {1, 2} : pc[t] \in {"none", "ready", "start_wait"}
    /\ app.program = "S1" =>
           /\ IsPrefix(app.trace, <<1, 2, 0>>) \/ IsPrefix(app.trace, <<2, 1, 0>>)
           /\ Finished => Len(app.trace) = 3

\* C19's case: main has returned from both of its schedule_next calls, each
\* of which consulted the strategy, while operations 1 and 2 are started and
\* parked.
C19_Witness ==
    /\ app.program = "S1_yield"
    /\ MainReturned = 5
    /\ scheduled_steps = 2
    /\ \A t \in {1, 2} : pc[t] = "start_wait" /\ operation_map[t].status = "Enabled"
    /\ scheduled_op_id = main_op_id

\* C20: a successful attach returns without parking and leaves the kernel
\* attached, iteration_count one higher, last_error_code Success, no pending
\* start, and main as the only operation: Enabled, the only member of the
\* enabled set, scheduled and the holder of the token; the strategy is
\* prepared for the iteration when it is not the first and left alone when it
\* is.
C20_AttachPostState ==
    [][(~is_attached /\ Attach(main_op_id)) =>
          /\ pc'[main_op_id] = "run"
          /\ is_attached'
          /\ iteration_count' = iteration_count + 1
          /\ last_error_code' = "Success"
          /\ pending_start_operation_count' = 0
          /\ DOMAIN operation_map' = {main_op_id}
          /\ operation_map'[main_op_id].status = "Enabled"
          /\ operation_map'[main_op_id].is_scheduled
          /\ operations' = <<[id |-> main_op_id, enabled |-> TRUE]>>
          /\ scheduled_op_id' = main_op_id
          /\ resource_map' = EmptyMap
          /\ IF iteration_count' > 1
             THEN /\ scheduled_steps' = 0
                  /\ prioritized_operations' = <<>>
                  /\ known_operations' = {}
                  /\ schedule_length' =
                         IF schedule_length < scheduled_steps
                         THEN scheduled_steps ELSE schedule_length
             ELSE UNCHANGED strategy_vars]_vars

\* C20's case: the kernel was attached again after an iteration that made
\* scheduling decisions and ended with threads parked, and nothing was called
\* since.
C20_Witness ==
    /\ is_attached
    /\ iteration_count > 1
    /\ schedule_length > 0
    /\ scheduled_steps = 0
    /\ DOMAIN operation_map = {main_op_id}
    /\ last_error_code = "Success"
    /\ pending_start_operation_count = 0
    /\ \E t \in DOMAIN pc : /\ pc[t] \in {"start_wait", "sched_wait"}
                             /\ park[t].iter < iteration_count

\* The operations of the map that were created or revived and whose start was
\* not observed yet.
NotStarted == {o \in DOMAIN operation_map : operation_map[o].status = "None"}

\* C21: in every state the pending-start counter equals the number of
\* operations of the map whose status is None, and it is never below zero.
C21_PendingStartCount ==
    /\ pending_start_operation_count >= 0
    /\ pending_start_operation_count = Cardinality(NotStarted)

\* C21's case: a start is pending in a second iteration, after an iteration
\* that was detached with a thread parked in start_operation, and after a call
\* returned an error.
C21_Witness ==
    /\ iteration_count = 2
    /\ pending_start_operation_count = 1
    /\ NotStarted # {}
    /\ last_error_code # "Success"
    /\ \E t \in DOMAIN pc : pc[t] = "start_wait" /\ park[t].iter < iteration_count

\* The join of operation o is satisfied by the completion of id: o is blocked
\* in a join that names id, and in mode All every target it still waits for is
\* Completed in the map om after the completion.
JoinSatisfied(o, id, om) ==
    /\ operation_map[o].status = "Blocked"
    /\ id \in operation_map[o].join_ids
    /\ operation_map[o].join_all =>
           \A x \in operation_map[o].join_ids : om[x].status = "Completed"

\* The members of the enabled set ops, enabled or disabled.
Members(ops) == {ops[i].id : i \in 1..Len(ops)}

\* C22: a complete_operation(id) that is accepted sets id to Completed, removes
\* it from the enabled set, re-enables exactly the joiners of id whose join is
\* now satisfied (mode Any: at once; mode All: when the last target completes)
\* and changes no other operation's status or membership; then the token goes
\* to an operation of the resulting enabled set whenever that set is not empty,
\* at once or after the wait for pending starts.
C22_CompletionWakesJoiners ==
    /\ [][\A t \in DOMAIN pc, id \in OpIds :
            (CompleteError(id) = "none" /\ CompleteOperation(t, id)) =>
               /\ operation_map'[id].status = "Completed"
               /\ id \notin Members(operations')
               /\ Members(operations') = Members(operations) \ {id}
               /\ \A o \in DOMAIN operation_map \ {id} :
                     IF JoinSatisfied(o, id, operation_map')
                     THEN /\ o \in operation_map[id].blocked_operation_ids
                          /\ operation_map'[o].status = "Enabled"
                          /\ o \in EnabledIds(operations')
                     ELSE /\ operation_map'[o].status = operation_map[o].status
                          /\ o \in EnabledIds(operations') <=>
                                o \in EnabledIds(operations)
               /\ (pending_start_operation_count = 0
                   /\ EnabledIds(operations') # {}) =>
                      /\ scheduled_op_id' \in EnabledIds(operations')
                      /\ operation_map'[scheduled_op_id'].is_scheduled
               /\ pending_start_operation_count # 0 =>
                      pc'[t] = "pending_wait" /\ park'[t].after = "done"]_vars
    /\ [][\A t \in DOMAIN pc :
            (WakePending(t) /\ park[t].after = "done"
             /\ pending_start_operation_count = 0
             /\ EnabledIds(operations) # {}) =>
               /\ scheduled_op_id' \in EnabledIds(operations')
               /\ operation_map'[scheduled_op_id'].is_scheduled]_vars

\* C22's case: operation 1 completed while main was blocked in a join of 1
\* and 2 in mode All; main stays blocked on 2 and operation 2 has the token.
C22_Witness ==
    /\ is_attached
    /\ {1, 2} \subseteq DOMAIN operation_map
    /\ operation_map[1].status = "Completed"
    /\ operation_map[2].status = "Enabled"
    /\ main_op_id \in operation_map[1].blocked_operation_ids
    /\ operation_map[main_op_id].status = "Blocked"
    /\ operation_map[main_op_id].join_all
    /\ operation_map[main_op_id].join_ids = {2}
    /\ scheduled_op_id = 2
    /\ pc[1] = "done"

\* C23 (first half): the joiners of an operation only grow while the operation
\* is not Completed and stays in the map.
C23_JoinersMonotone ==
    [][\A o \in DOMAIN operation_map \cap DOMAIN operation_map' :
          operation_map[o].status # "Completed" =>
             operation_map[o].blocked_operation_ids \subseteq
                operation_map'[o].blocked_operation_ids]_vars

\* C23: the joiners of a Completed operation are drained: in every state a
\* Completed operation has an empty joiners set, so a revived operation starts
\* its next incarnation without joiners.
C23_JoinersDrained ==
    \A o \in DOMAIN operation_map :
        operation_map[o].status = "Completed" =>
           operation_map[o].blocked_operation_ids = {}

\* The strategy's priority list and known set after the set_new_operation_priorities
\* of a next_operation(en, current) call made in the current state.
Prioritized(en, current) ==
    set_new_operation_priorities(
        [gen |-> generator, list |-> prioritized_operations,
         known |-> known_operations], en, current)

\* C24: in a next_operation(en, current) call made in any state of the
\* strategy, an empty priority list is first seeded with current; then every
\* enabled id not yet known is inserted once, behind the front element and not
\* past the end: the front element and the relative order of the ids already in
\* the list are kept, and the list holds exactly the old ids and the enabled
\* ids, each once.
C24_PriorityAssignment ==
    \A en \in EnabledLists, current \in OpIds :
        LET seeded == IF prioritized_operations = <<>> THEN <<current>>
                      ELSE prioritized_operations
            s1 == Prioritized(en, current)
        IN /\ Head(s1.list) = Head(seeded)
           /\ SelectSeq(s1.list, LAMBDA id : id \in Range(seeded)) = seeded
           /\ Range(s1.list) = Range(seeded) \cup Range(en)
           /\ Len(s1.list) = Cardinality(Range(s1.list))
           /\ s1.known = Range(s1.list)
           /\ (Len(en) <= 1 \/ scheduled_steps \notin priority_change_points)
                 => next_operation(en, current).list = s1.list

\* C24's case: operations 1 and 2 were given priorities behind the seeded
\* operation 0, operation 2 between the front and the tail.
C24_Witness ==
    /\ app.enabled = <<1, 2>>
    /\ prioritized_operations = <<0, 2, 1>>
    /\ app.returned = 2
    /\ priority_change_points = {}

\* C25: in a next_operation(en, current) call made in any state of the
\* strategy, when more than one operation is enabled and scheduled_steps is a
\* change point, the enabled id of highest priority becomes the last of the
\* priority list, the order of the other ids is kept, and the call returns
\* another enabled id; otherwise the list is the one the priority assignment
\* left and the call returns the enabled id of highest priority.
C25_ChangePoint ==
    \A en \in EnabledLists, current \in OpIds :
        LET before == Prioritized(en, current).list
            top == get_operation_with_highest_priority(before, en)
            r == next_operation(en, current)
        IN IF Len(en) > 1 /\ scheduled_steps \in priority_change_points
           THEN /\ top \in Range(en)
                /\ Len(r.list) = Len(before)
                /\ r.list[Len(r.list)] = top
                /\ SelectSeq(r.list, LAMBDA id : id # top) =
                      SelectSeq(before, LAMBDA id : id # top)
                /\ r.next \in Range(en) \ {top}
           ELSE /\ r.list = before
                /\ r.next = top

\* C25's case: in a second iteration a next_operation call with two or more
\* enabled operations was made at a change point; the operation it moved to
\* the tail is enabled and another enabled operation was returned.
C25_Witness ==
    /\ iteration_count > 1
    /\ scheduled_steps > 0
    /\ (scheduled_steps - 1) \in priority_change_points
    /\ Len(app.enabled) > 1
    /\ Len(prioritized_operations) > 1
    /\ prioritized_operations[Len(prioritized_operations)] \in Range(app.enabled)
    /\ app.returned \in Range(app.enabled)
    /\ app.returned # prioritized_operations[Len(prioritized_operations)]
    /\ app.returned =
          get_operation_with_highest_priority(prioritized_operations, app.enabled)

\* C26: a create_resource or create_operation call whose checks all pass
\* returns Success, whatever an earlier call of the iteration returned: the
\* value returned, last_error_code, is never the code of a previous call.
C26_ReturnCodeReflectsCall ==
    /\ [][\A t \in DOMAIN pc, r \in ResIds :
            (CreateResourceError(r) = "none" /\ CreateResource(t, r)) =>
               last_error_code' = "Success"]_vars
    /\ [][\A t \in DOMAIN pc, id \in OpIds :
            (CreateError(id) = "none" /\ CreateOperation(t, id)) =>
               last_error_code' = "Success"]_vars

\* Thread t runs the scheduling step of schedule_next_inner: in an accepted
\* entry point that reaches it with no start pending, or after its wait for
\* pending starts.
SchedulingStep(t) ==
    \/ WakePending(t) /\ pending_start_operation_count = 0
    \/ /\ pending_start_operation_count = 0
       /\ \/ ScheduleError = "none" /\ ScheduleNext(t)
          \/ \E id \in OpIds : CompleteError(id) = "none" /\ CompleteOperation(t, id)
          \/ \E id \in OpIds : /\ JoinError(id) = "none"
                                /\ operation_map[id].status # "Completed"
                                /\ JoinOperation(t, id)
          \/ \E ids \in OpIdLists, wait_all \in BOOLEAN :
                 /\ JoinsError(ids) = "none"
                 /\ JoinLoop(operation_map, ids, 1, {}).joined # {}
                 /\ JoinOperations(t, ids, wait_all)
          \/ \E rs \in ResIdLists, wait_all \in BOOLEAN :
                 WaitError(rs) = "none" /\ WaitResources(t, rs, wait_all)

\* C27 (invariant): while the kernel is attached the main operation is a
\* member of the enabled set, enabled or disabled.
C27_MainIsMember == is_attached => main_op_id \in Members(operations)

\* C27 (steps): while attached, a scheduling step that finds no enabled
\* operation finds a non-empty enabled set and raises DeadlockDetected, and no
\* scheduling step produces the Success outcome.
C27_NoEndOfSchedule ==
    [][\A t \in DOMAIN pc :
          (is_attached /\ SchedulingStep(t)) =>
             /\ EnabledIds(operations') = {} =>
                   /\ OpsTotal(operations') > 0
                   /\ last_error_code' = "DeadlockDetected"
             /\ last_error_code' = "Success" => last_error_code = "Success"]_vars

\* C27: main never leaves the enabled set while attached, so a scheduling step
\* without an enabled operation is a deadlock, never the end of the schedule.
C27_MainNeverLeaves == []C27_MainIsMember /\ C27_NoEndOfSchedule

\* C27's case: attached, every operation of the enabled set is disabled, main
\* among them, and the scheduling step of a completing operation raised
\* DeadlockDetected.
C27_Witness ==
    /\ is_attached
    /\ EnabledIds(operations) = {}
    /\ main_op_id \in Members(operations)
    /\ operation_map[main_op_id].status = "Blocked"
    /\ last_error_code = "DeadlockDetected"
    /\ \E o \in DOMAIN operation_map :
          operation_map[o].status = "Completed" /\ pc[o] = "done"

\* C28: in every state, every id in the blocked set of a resource names an
\* operation of the map that is blocked, disabled in the enabled set and
\* waiting for that resource; so an operation whose wait was satisfied is in no
\* blocked set.
C28_NoStaleWaiters ==
    \A r \in DOMAIN resource_map :
        \A o \in resource_map[r] :
            /\ o \in DOMAIN operation_map
            /\ operation_map[o].status = "Blocked"
            /\ r \in operation_map[o].res_ids
            /\ o \notin EnabledIds(operations)

\* C29 (safety half): a thread leaves the park loop of start_operation and
\* returns to its caller only in a state where the kernel is attached and its
\* operation exists with is_scheduled true, that is, only when a scheduling
\* step granted it the token.
C29_StartReturnsScheduled ==
    [][\A t \in DOMAIN pc :
          (pc[t] = "start_wait" /\ pc'[t] = "run") =>
             /\ is_attached'
             /\ t \in DOMAIN operation_map'
             /\ operation_map'[t].is_scheduled
             /\ park[t].iter = iteration_count]_vars

\* Id a comes before id b in the sequence list (both occur in it).
Before(list, a, b) ==
    \E i \in 1..Len(list), j \in 1..Len(list) :
        i < j /\ list[i] = a /\ list[j] = b

\* C30 (state): the priority list holds no id twice and its ids are exactly
\* the known operations.
C30_ListIsKnown ==
    /\ Len(prioritized_operations) = Cardinality(Range(prioritized_operations))
    /\ Range(prioritized_operations) = known_operations

\* C30 (steps): the relative order of two ids of the priority list changes only
\* in a next_operation call made at a change point with more than one enabled
\* operation, and only by the move of one of them to the tail.
C30_OrderStable ==
    [][\A a \in Range(prioritized_operations) \cap Range(prioritized_operations'),
         b \in Range(prioritized_operations) \cap Range(prioritized_operations') :
          (Before(prioritized_operations, a, b)
           /\ Before(prioritized_operations', b, a)) =>
             /\ scheduled_steps \in priority_change_points
             /\ scheduled_steps' = scheduled_steps + 1
             /\ Len(app'.enabled) > 1
             /\ a = prioritized_operations'[Len(prioritized_operations')]
             /\ a \in Range(app'.enabled)]_vars

\* C30 (consequence): in an iteration without change points the operation
\* that seeded the list, the current one of the first next_operation call,
\* stays at the front, and it is the id returned by every next_operation call
\* in which it is enabled.
C30_FirstCurrentWins ==
    /\ [][priority_change_points = {} /\ priority_change_points' = {} =>
            /\ (prioritized_operations # <<>> /\ prioritized_operations' # <<>>)
                  => Head(prioritized_operations') = Head(prioritized_operations)
            /\ (prioritized_operations = <<>> /\ prioritized_operations' # <<>>)
                  => \E current \in OpIds :
                        /\ PctNextOperation(app'.enabled, current)
                        /\ Head(prioritized_operations') = current]_vars
    /\ [](priority_change_points = {} /\ prioritized_operations # <<>>
           /\ Head(prioritized_operations) \in Range(app.enabled)
             => app.returned = Head(prioritized_operations))

\* C30: the priority order is stable between change points.
C30_StablePriorities == []C30_ListIsKnown /\ C30_OrderStable /\ C30_FirstCurrentWins

\* C30's case: in an iteration without change points, after several decisions
\* three operations have priorities, and the last next_operation call returned
\* the operation at the front although it was not the first of the enabled
\* operations it was called with.
C30_Witness ==
    /\ priority_change_points = {}
    /\ Len(prioritized_operations) = 3
    /\ scheduled_steps >= 2
    /\ Len(app.enabled) >= 2
    /\ Head(prioritized_operations) \in Range(app.enabled)
    /\ Head(prioritized_operations) # app.enabled[1]
    /\ app.returned = Head(prioritized_operations)

\* run_iteration returned: main made all its calls, detach the last, and every
\* worker returned from complete_operation and ended.
SemIterationDone ==
    /\ ~is_attached
    /\ app.step[main_op_id] > Len(RunIteration)
    /\ \A w \in 1..NumWorkers : app.step[w] = "end" /\ pc[w] = "done"

\* C31 (state): no entry point of the semaphore test returns DeadlockDetected.
C31_NoDeadlockCode == last_error_code # "DeadlockDetected"

\* C31 (steps): when main detaches, its three joins have returned and the three
\* workers are Completed.
C31_DetachAfterCompletion ==
    [][(is_attached /\ ~is_attached') =>
          /\ app.step[main_op_id] = Len(RunIteration)
          /\ pc'[main_op_id] = "run"
          /\ \A w \in 1..NumWorkers :
                /\ w \in DOMAIN operation_map
                /\ operation_map[w].status = "Completed"
                /\ app.step[w] = "end"]_vars

\* C31: in the bounded-semaphore test every schedule the kernel can choose
\* reaches detach with the three workers Completed and the three joins
\* returned, and no entry point returns DeadlockDetected.
C31_NoSpuriousDeadlock ==
    /\ []C31_NoDeadlockCode
    /\ C31_DetachAfterCompletion
    /\ (is_attached ~> SemIterationDone)

\* C31's case: a second iteration, scheduled with priority change points,
\* ended with detach after two workers had been inside the semaphore together
\* and a worker had to call wait_resource: more entry-point calls were made
\* than the calls of run_iteration and the four calls of each worker.
C31_Witness ==
    /\ SemIterationDone
    /\ iteration_count = 2
    /\ priority_change_points # {}
    /\ app.max_value_observed = max_allowed
    /\ calls > iteration_count * (Len(RunIteration) + 4 * NumWorkers)
    /\ last_error_code = "Success"
====
